---- MODULE Spec2Model ----
(***************************************************************************)
(* A model of the conversational orchestration core of the AIwebsite      *)
(* backend: the LRU+TTL conversation store, the heuristic state updater,   *)
(* the tool dispatcher with product pinning, and the bounded agent loop.   *)
(* Strings whose characters matter (chat text, keywords, product ids) are  *)
(* sequences of one-character strings.                                     *)
(***************************************************************************)
EXTENDS Integers, Sequences, FiniteSets, TLC

(***************************************************************************)
(* Bounds of the model.                                                    *)
(***************************************************************************)
MaxCap == 2
MaxTime == 2
MaxMsgs == 2
MaxDeltas == 1
MaxToolCalls == 3
MaxInquiries == 3
MaxPersisted == 1
MaxRequests == 2
TtlSeconds == 1

Cids == {1, 2, 3}
Callers == {1}
Locales == {"en"}
Summaries == {"", "s"}
NoOid == 0
\* enough object identities for every stored and every held object, and one more
Oids == 1..(Cardinality(Cids) + Cardinality(Callers) + 1)

VARIABLES
    \* ---- LRUConversationStore (conversation_state.py) ----
    max_items,      \* self.max_items
    store,          \* self._store: conversation id -> ConversationState (oid 0 = absent)
    access_order,   \* self._access_order: ids, most recently used at the end
    now,            \* time.time()
    held,           \* per caller: the state object get_or_create handed it last
    raised,         \* the last store call ended in an exception
    recency,        \* history: ids by last access, oldest first (never pruned)
    lastOp          \* history: the last store call

storeVars == <<max_items, store, access_order, now, held, raised, recency, lastOp>>

VARIABLES
    \* ---- update_state_from_messages (conversation_state.py) ----
    u_cfg,          \* config["state_management"] of the running service
    u_state,        \* the ConversationState of one conversation
    u_prev,         \* history: the confirmation slot before the last update
    u_persisted     \* history: the turns added with persist_turn, in order

updVars == <<u_cfg, u_state, u_prev, u_persisted>>

VARIABLES
    \* ---- ToolDispatcher.dispatch (tools/dispatcher.py) ----
    d_schema,       \* which send_inquiry schema the configuration declares
    d_tool,         \* tool_name of the call
    d_args,         \* tool_args of the call
    d_pin,          \* ctx.active_product of the call
    d_phase,        \* "idle", "called", "returned" or "raised"
    d_result,       \* what dispatch returned
    d_handler       \* what the handler was called with (NoCall if it was not)

dispVars == <<d_schema, d_tool, d_args, d_pin, d_phase, d_result, d_handler>>

VARIABLES
    \* ---- the agent loop of chat and chat_stream (api/routes/chat.py) ----
    l_req,          \* the request: stream or not, allow_actions, focus product, schema
    l_phase,        \* "turn" (top of the for loop), "stream" (reading the provider), "ended"
    l_turn,         \* the loop index
    l_calls,        \* model calls made
    l_dispatches,   \* calls of dispatcher.dispatch made
    l_called,       \* tool_called_in_this_turn
    l_pending,      \* pending_tool
    l_deltas,       \* text chunks the provider has sent in this request
    l_toolcalls,    \* tool calls the provider has sent in this request
    l_events,       \* what the client was sent, in order
    l_handled,      \* the handler calls made, in order
    l_end,          \* "running", or why the response ended
    l_first,        \* the first complete tool call the provider produced in this turn
    l_fwd,          \* tool_call events passed to the client in this turn
    l_fail,         \* the counters at the moment the provider failed (calls = 0: never)
    l_conn,         \* "open", or "gone" once the client has disconnected
    l_gone,         \* the counters at the moment the client disconnected
    l_susp,         \* the generator may be suspended at a yield (it ran up to one)
    l_logger        \* session_logger: "open" or "closed"

loopVars == <<l_req, l_phase, l_turn, l_calls, l_dispatches, l_called, l_pending,
              l_deltas, l_toolcalls, l_events, l_handled, l_end, l_first, l_fwd,
              l_fail, l_conn, l_gone, l_susp, l_logger>>

VARIABLES
    \* ---- handle_send_inquiry and the inquiries table (tools/handlers.py, db.py) ----
    h_db,           \* the inquiries table: the status of each row, row id = index
    h_mailer,       \* ctx.mailer is configured
    h_pc,           \* where the running call stands; "idle" between calls
    h_id,           \* inquiry_id of the running call (0 before the insert)
    h_log,          \* what the running call has done, in order
    h_delivery,     \* "none", "sent" or "failed": what mailer.send_inquiry did
    h_result        \* what the call returned

inqVars == <<h_db, h_mailer, h_pc, h_id, h_log, h_delivery, h_result>>

VARIABLES
    \* ---- ProductRAG and the embedding cache (product_rag.py, db.py) ----
    r_products,     \* self.products: the catalog of the running instance
    r_cache,        \* the product_embeddings table: product_id -> row
    r_embedded,     \* history: how often the embedder was asked for each hash
    r_built,        \* self._vecs is not None
    r_vecs,         \* self._vecs
    r_index,        \* self.vector_index (a NumpyIndex)
    r_builds,       \* history: runs of build_index
    r_out           \* what the last operation returned

ragVars == <<r_products, r_cache, r_embedded, r_built, r_vecs, r_index, r_builds, r_out>>

VARIABLES
    \* ---- ToolRegistry.get_allowed_tools (tools/registry.py) ----
    t_tools,        \* self._tools: name -> ToolSpec, in the order of the configuration
    t_plan,         \* route_plan of the call: intent and stage
    t_phase,        \* "idle" or "returned"
    t_out           \* the names of the tools in the returned list, in order

regVars == <<t_tools, t_plan, t_phase, t_out>>

VARIABLES
    \* ---- _build_route_plan and _retrieve_context (services/chat/service.py) ----
    c_cfg,          \* the routing and retrieval part of self.config
    c_slots,        \* the slots of the conversation: focus product and confirmation flag
    c_query,        \* what the router, the keyword lists and exact_match make of the query
    c_phase,        \* "idle" or "returned"
    c_plan,         \* the route plan
    c_ctx           \* the product context handed to the prompt

ctxVars == <<c_cfg, c_slots, c_query, c_phase, c_plan, c_ctx>>

VARIABLES
    \* ---- EmbeddingIntentRouter (chat/intent_router.py) ----
    i_cfg,          \* config["intent_examples"]: what each intent is configured with
    i_built,        \* self._built
    i_names,        \* self._intent_names
    i_vecs,         \* self._intent_vecs: the centroid rows (<<>> stands for None)
    i_query,        \* the query of the last route call
    i_out           \* what the last route call returned

routerVars == <<i_cfg, i_built, i_names, i_vecs, i_query, i_out>>

VARIABLES
    \* ---- requests that use the store from different threads ----
    k_pc,           \* per thread: where its store call stands ("idle" between requests)
    k_inner,        \* per thread: the running upsert is the one get_or_create makes
    k_stamp,        \* per thread: state.updated_at as the running upsert set it
    k_lru,          \* per thread: lru_id of the running upsert
    k_left,         \* per thread: requests still to come
    k_exc,          \* per thread: the exception its last request ended with ("" if none)
    k_victims       \* history: the ids an eviction has popped

concVars == <<k_pc, k_inner, k_stamp, k_lru, k_left, k_exc, k_victims>>

VARIABLES
    \* ---- ProductRAG and its NumpyIndex used from different threads ----
    v_vecs,         \* self._vecs: the build that assigned it (0: None)
    v_vectors,      \* vector_index._vectors: the build that assigned it (0: None)
    v_norms,        \* vector_index._norms: the build whose vectors it was computed from (0: None)
    v_builds,       \* history: runs of build_index started
    v_done,         \* history: the builds that returned
    v_pc,           \* per thread: where its request stands ("idle" between requests)
    v_kind,         \* per thread: "init" (POST /init) or "search" (semantic_search)
    v_gen,          \* per thread: the build it is running
    v_seen,         \* per thread: the builds whose vectors and norms its search read
    v_out,          \* per thread: how its last search ended
    v_left          \* per thread: requests still to come

idxVars == <<v_vecs, v_vectors, v_norms, v_builds, v_done, v_pc, v_kind, v_gen,
             v_seen, v_out, v_left>>

vars == <<storeVars, updVars, dispVars, loopVars, inqVars, ragVars,
         regVars, ctxVars, routerVars, concVars, idxVars>>

\* what each component's steps leave alone
notStore == <<updVars, dispVars, loopVars, inqVars, ragVars, regVars,
              ctxVars, routerVars, concVars, idxVars>>
notUpd == <<storeVars, dispVars, loopVars, inqVars, ragVars, regVars,
            ctxVars, routerVars, concVars, idxVars>>
notDisp == <<storeVars, updVars, loopVars, inqVars, ragVars, regVars,
             ctxVars, routerVars, concVars, idxVars>>
notLoop == <<storeVars, updVars, dispVars, inqVars, ragVars, regVars,
             ctxVars, routerVars, concVars, idxVars>>
notInq == <<storeVars, updVars, dispVars, loopVars, ragVars, regVars,
            ctxVars, routerVars, concVars, idxVars>>
notRag == <<storeVars, updVars, dispVars, loopVars, inqVars, regVars,
            ctxVars, routerVars, concVars, idxVars>>
notReg == <<storeVars, updVars, dispVars, loopVars, inqVars, ragVars,
            ctxVars, routerVars, concVars, idxVars>>
notCtx == <<storeVars, updVars, dispVars, loopVars, inqVars, ragVars,
            regVars, routerVars, concVars, idxVars>>
notRouter == <<storeVars, updVars, dispVars, loopVars, inqVars, ragVars,
               regVars, ctxVars, concVars, idxVars>>
notConc == <<storeVars, updVars, dispVars, loopVars, inqVars, ragVars,
             regVars, ctxVars, routerVars, idxVars>>
notIdx == <<storeVars, updVars, dispVars, loopVars, inqVars, ragVars,
            regVars, ctxVars, routerVars, concVars>>

(***************************************************************************)
(* Sequence helpers (Python list semantics).                               *)
(***************************************************************************)
InSeq(s, x) == \E i \in 1..Len(s) : s[i] = x

FirstIndex(s, x) == CHOOSE i \in 1..Len(s) : s[i] = x /\ \A j \in 1..(i-1) : s[j] # x

\* list.remove(x) guarded by "if x in list": drops the first occurrence only
RemoveFirst_Keep(s, x) == s
RemoveFirst(s, x) ==
    IF InSeq(s, x)
    THEN LET i == FirstIndex(s, x)
         IN  SubSeq(s, 1, i-1) \o SubSeq(s, i+1, Len(s))
    ELSE s

SeqSet(s) == {s[i] : i \in 1..Len(s)}

(***************************************************************************)
(* ConversationState and the store operations.  A state object is a record *)
(* with its identity (oid); two records with one oid are one Python object,*)
(* so a write through one reference is seen through every other.           *)
(***************************************************************************)
EmptySlots == [email |-> <<>>, name |-> <<>>, product_id |-> <<>>,
               product_slug |-> <<>>, confirm_send |-> "unset"]

\* ConversationState(conversation_id=cid, locale=locale): dataclass defaults
NewState(oid, cid, locale, t) ==
    [oid |-> oid, conversation_id |-> cid, locale |-> locale, summary |-> "",
     slots |-> EmptySlots, recent_turns |-> <<>>, updated_at |-> t]

NoState == NewState(NoOid, 0, "", 0)

StoreDom(st) == {c \in Cids : st[c].oid # NoOid}

LiveOids(st, hd) == {st[c].oid : c \in Cids} \cup {hd[k].oid : k \in Callers}

FreshOid(st, hd) == CHOOSE o \in Oids : o \notin LiveOids(st, hd) /\
                        \A p \in Oids : p \notin LiveOids(st, hd) => o <= p

\* a write to object obj, seen through the store and through every holder
WriteStore(st, obj) == [c \in Cids |-> IF st[c].oid = obj.oid THEN obj ELSE st[c]]
WriteHeld(hd, obj) == [k \in Callers |-> IF hd[k].oid = obj.oid THEN obj ELSE hd[k]]

\* now - st.updated_at > self.ttl_seconds
Expired_Inclusive(t, updated_at) == t - updated_at >= TtlSeconds
Expired(t, updated_at) == t - updated_at > TtlSeconds

\* the hit branch of get_or_create: remove the id, append it (MRU at the end)
MoveToEnd_NoPromote(ao, cid) == ao
MoveToEnd(ao, cid) == Append(RemoveFirst(ao, cid), cid)

\* the victim of an eviction: self._access_order.pop(0)
LruOf_Newest(ao) == ao[Len(ao)]
LruOf(ao) == Head(ao)

\* upsert(state) at time t; hd are the held references
UpsertRes(st, ao, hd, state, t) ==
    LET cid    == state.conversation_id
        obj    == [state EXCEPT !.updated_at = t]
        st0    == WriteStore(st, obj)
        hd0    == WriteHeld(hd, obj)
        known  == st0[cid].oid # NoOid
        full   == Cardinality(StoreDom(st0)) >= max_items
        mustEvict == ~known /\ full
    IN  IF mustEvict /\ ao = <<>>
        THEN \* self._access_order.pop(0) on an empty list: IndexError
             [store |-> st0, access_order |-> ao, held |-> hd0,
              raised |-> TRUE, evicted |-> 0]
        ELSE LET lru == IF mustEvict THEN LruOf(ao) ELSE 0
                 ao1 == IF known THEN RemoveFirst(ao, cid)
                        ELSE IF mustEvict THEN RemoveFirst(ao, lru) ELSE ao
                 st1 == IF mustEvict THEN [st0 EXCEPT ![lru] = NoState] ELSE st0
             IN  [store |-> [st1 EXCEPT ![cid] = obj],
                  access_order |-> Append(ao1, cid),
                  held |-> hd0, raised |-> FALSE, evicted |-> lru]

\* get_or_create(conversation_id, locale) called by caller k at time t
GetOrCreateRes(st, ao, hd, k, cid, locale, t) ==
    LET cur == st[cid]
        hit == cur.oid # NoOid /\ ~Expired(t, cur.updated_at)
    IN  IF hit
        THEN LET obj == IF locale # "" /\ locale # cur.locale
                        THEN [cur EXCEPT !.locale = locale] ELSE cur
             IN  [store |-> WriteStore(st, obj),
                  access_order |-> MoveToEnd(ao, cid),
                  held |-> [WriteHeld(hd, obj) EXCEPT ![k] = obj],
                  raised |-> FALSE, evicted |-> 0, hit |-> TRUE]
        ELSE LET st0 == IF cur.oid # NoOid THEN [st EXCEPT ![cid] = NoState] ELSE st
                 ao0 == IF cur.oid # NoOid THEN RemoveFirst(ao, cid) ELSE ao
                 new == NewState(FreshOid(st, hd), cid, locale, t)
                 u   == UpsertRes(st0, ao0, hd, new, t)
             IN  [store |-> u.store, access_order |-> u.access_order,
                  held |-> IF u.raised THEN u.held
                           ELSE [u.held EXCEPT ![k] = u.store[cid]],
                  raised |-> u.raised, evicted |-> u.evicted, hit |-> FALSE]

Touch(rc, cid) == Append(RemoveFirst(rc, cid), cid)

NoOp == [op |-> "none", cid |-> 0, caller |-> 0, evicted |-> 0, hit |-> FALSE]

StoreInit ==
    /\ max_items \in 1..MaxCap
    /\ store = [c \in Cids |-> NoState]
    /\ access_order = <<>>
    /\ now = 0
    /\ held = [k \in Callers |-> NoState]
    /\ raised = FALSE
    /\ recency = <<>>
    /\ lastOp = NoOp

GetOrCreate(k, cid, locale) ==
    /\ LET r == GetOrCreateRes(store, access_order, held, k, cid, locale, now)
       IN  /\ store' = r.store
           /\ access_order' = r.access_order
           /\ held' = r.held
           /\ raised' = r.raised
           /\ recency' = Touch(recency, cid)
           /\ lastOp' = [op |-> "get_or_create", cid |-> cid, caller |-> k,
                         evicted |-> r.evicted, hit |-> r.hit]
    /\ UNCHANGED <<max_items, now>>

\* caller k upserts the state object it holds
Upsert(k) ==
    /\ held[k].oid # NoOid
    /\ LET cid == held[k].conversation_id
           r   == UpsertRes(store, access_order, held, held[k], now)
       IN  /\ store' = r.store
           /\ access_order' = r.access_order
           /\ held' = r.held
           /\ raised' = r.raised
           /\ recency' = Touch(recency, cid)
           /\ lastOp' = [op |-> "upsert", cid |-> cid, caller |-> k,
                         evicted |-> r.evicted, hit |-> store[cid].oid # NoOid]
    /\ UNCHANGED <<max_items, now>>

\* caller k edits the state object it holds (summary stands for its content)
Mutate(k, s) ==
    /\ held[k].oid # NoOid
    /\ held[k].summary # s
    /\ LET obj == [held[k] EXCEPT !.summary = s]
       IN  /\ store' = WriteStore(store, obj)
           /\ held' = WriteHeld(held, obj)
    /\ lastOp' = NoOp
    /\ UNCHANGED <<max_items, access_order, now, raised, recency>>

Tick ==
    /\ now < MaxTime
    /\ now' = now + 1
    /\ lastOp' = NoOp
    /\ UNCHANGED <<max_items, store, access_order, held, raised, recency>>

(***************************************************************************)
(* Text: a Python str is a sequence of one-character strings.              *)
(***************************************************************************)
LowerLetters == <<"a", "b", "c", "d", "e", "f", "g", "h", "i", "j", "k", "l", "m", "n", "o", "p", "q", "r", "s", "t", "u", "v", "w", "x", "y", "z">>
UpperLetters == <<"A", "B", "C", "D", "E", "F", "G", "H", "I", "J", "K", "L", "M", "N", "O", "P", "Q", "R", "S", "T", "U", "V", "W", "X", "Y", "Z">>
Digits == {"0", "1", "2", "3", "4", "5", "6", "7", "8", "9"}

UpperSet == {UpperLetters[i] : i \in 1..26}
LetterSet == UpperSet \cup {LowerLetters[i] : i \in 1..26}
ToLower == [c \in UpperSet |-> LowerLetters[CHOOSE i \in 1..26 : UpperLetters[i] = c]]

IsLetter(c) == c \in LetterSet

\* str.lower(), character by character
LowerChar(c) == IF c \in UpperSet THEN ToLower[c] ELSE c
RECURSIVE Lower(_)
Lower(t) == IF t = <<>> THEN <<>> ELSE <<LowerChar(Head(t))>> \o Lower(Tail(t))

\* needle in haystack (substring test)
StartsAt(h, n, i) == i + Len(n) - 1 <= Len(h) /\ \A j \in 1..Len(n) : h[i + j - 1] = n[j]
Contains(h, n) == \E i \in 1..(Len(h) + 1) : StartsAt(h, n, i)

IsSpace(c) == c = " "
\* the class [a-zA-Z0-9\-_]
IsIdChar(c) == IsLetter(c) \/ c \in Digits \/ c = "-" \/ c = "_"

\* first index >= i of t whose character fails the test (Len(t)+1 if none)
RECURSIVE SkipSpaces(_, _)
SkipSpaces(t, i) == IF i <= Len(t) /\ IsSpace(t[i]) THEN SkipSpaces(t, i + 1) ELSE i
RECURSIVE SkipIdChars(_, _)
SkipIdChars(t, i) == IF i <= Len(t) /\ IsIdChar(t[i]) THEN SkipIdChars(t, i + 1) ELSE i

\* the classes \w and [\w\.-] over the characters of the model
IsWordChar(c) == IsLetter(c) \/ c \in Digits \/ c = "_"
IsEmailChar(c) == IsWordChar(c) \/ c = "." \/ c = "-"

RECURSIVE SkipLetters(_, _)
SkipLetters(t, i) == IF i <= Len(t) /\ IsLetter(t[i]) THEN SkipLetters(t, i + 1) ELSE i
RECURSIVE SkipWordChars(_, _)
SkipWordChars(t, i) == IF i <= Len(t) /\ IsWordChar(t[i]) THEN SkipWordChars(t, i + 1) ELSE i
RECURSIVE SkipEmailChars(_, _)
SkipEmailChars(t, i) == IF i <= Len(t) /\ IsEmailChar(t[i]) THEN SkipEmailChars(t, i + 1) ELSE i

\* last index <= i of t whose character fails the test (0 if none)
RECURSIVE BackSpaces(_, _)
BackSpaces(t, i) == IF i >= 1 /\ IsSpace(t[i]) THEN BackSpaces(t, i - 1) ELSE i
RECURSIVE BackEmailChars(_, _)
BackEmailChars(t, i) == IF i >= 1 /\ IsEmailChar(t[i]) THEN BackEmailChars(t, i - 1) ELSE i

\* the text ends with the needle at index i, whatever the case
EndsAtLower(t, n, i) ==
    /\ i - Len(n) + 1 >= 1
    /\ i <= Len(t)
    /\ \A j \in 1..Len(n) : LowerChar(t[i - Len(n) + j]) = n[j]
StartsAtLower(t, n, i) ==
    /\ i >= 1
    /\ i + Len(n) - 1 <= Len(t)
    /\ \A j \in 1..Len(n) : LowerChar(t[i + j - 1]) = n[j]

Max(S) == CHOOSE m \in S : \A n \in S : n <= m
Min(S) == CHOOSE m \in S : \A n \in S : m <= n

\* " ".join(parts)
RECURSIVE JoinSpace(_)
JoinSpace(parts) ==
    IF parts = <<>> THEN <<>>
    ELSE IF Len(parts) = 1 THEN parts[1]
    ELSE parts[1] \o <<" ">> \o JoinSpace(Tail(parts))

\* [f(x) for x in s if keep(x)] for messages: the texts of the user messages
RECURSIVE UserTexts(_)
UserTexts(msgs) ==
    IF msgs = <<>> THEN <<>>
    ELSE IF msgs[1].role = "user" THEN <<msgs[1].text>> \o UserTexts(Tail(msgs))
    ELSE UserTexts(Tail(msgs))

\* the last n items of a list: s[-n:]
LastN(s, n) == IF Len(s) <= n THEN s ELSE SubSeq(s, Len(s) - n + 1, Len(s))

(***************************************************************************)
(* update_state_from_messages: the heuristic slot extractor.               *)
(***************************************************************************)
RecentTurnsCap == 20

\* [\w\.-]+@[\w\.-]+\.\w+ around the "@" at k: <<first, last>> index of the match,
\* <<0, 0>> when there is none
EmailSpanAt(t, k) ==
    IF t[k] # "@" THEN <<0, 0>>
    ELSE LET first == BackEmailChars(t, k - 1) + 1
             stop == SkipEmailChars(t, k + 1)
             dots == {d \in (k + 2)..(stop - 2) : t[d] = "." /\ IsWordChar(t[d + 1])}
         IN  IF first > k - 1 \/ dots = {} THEN <<0, 0>>
             ELSE <<first, SkipWordChars(t, Max(dots) + 1) - 1>>

EmailAts(t) == {k \in 1..Len(t) : EmailSpanAt(t, k)[1] # 0}

\* (?:email|mail)(?:\s*[:]\s*|\s+is\s+) ends right before index first
EmailContextBefore(t, first) ==
    LET a == BackSpaces(t, first - 1)
    IN  \/ /\ a >= 1
           /\ t[a] = ":"
           /\ EndsAtLower(t, <<"m", "a", "i", "l">>, BackSpaces(t, a - 1))
        \/ /\ a < first - 1
           /\ EndsAtLower(t, <<"i", "s">>, a)
           /\ a - 2 >= 1
           /\ IsSpace(t[a - 2])
           /\ EndsAtLower(t, <<"m", "a", "i", "l">>, BackSpaces(t, a - 2))

\* the e-mail slot after the extraction: the last declared address ("email: x"),
\* else the last address of any kind, else what it was
EmailAfter(before, t) ==
    LET declared == {k \in EmailAts(t) : EmailContextBefore(t, EmailSpanAt(t, k)[1])}
        pick == IF declared # {} THEN Max(declared)
                ELSE IF EmailAts(t) # {} THEN Max(EmailAts(t))
                ELSE 0
    IN  IF pick = 0 THEN before
        ELSE SubSeq(t, EmailSpanAt(t, pick)[1], EmailSpanAt(t, pick)[2])

\* ([A-Z][a-zA-Z]+(?: [A-Z][a-zA-Z]+)?) under IGNORECASE, from index b: the index
\* after the capture, 0 when it does not match
NameCaptureEnd(t, b) ==
    LET e1 == SkipLetters(t, b)
    IN  IF e1 - b < 2 THEN 0
        ELSE IF e1 <= Len(t) /\ t[e1] = " " /\ SkipLetters(t, e1 + 1) - (e1 + 1) >= 2
             THEN SkipLetters(t, e1 + 1)
             ELSE e1

IsNameSep(c) == c = ":" \/ c = "-" \/ LowerChar(c) = "i" \/ LowerChar(c) = "s"
RECURSIVE SkipNameSeps(_, _)
SkipNameSeps(t, i) == IF i <= Len(t) /\ IsNameSep(t[i]) THEN SkipNameSeps(t, i + 1) ELSE i

\* (?:name|contact)[\s]*[:\-is]+[\s]*(...) with its keyword at i: where the capture
\* starts (the separator run as long as a match allows), 0 when no match there
LabelledNameStart(t, i) ==
    LET kw == IF StartsAtLower(t, <<"n", "a", "m", "e">>, i) THEN 4
              ELSE IF StartsAtLower(t, <<"c", "o", "n", "t", "a", "c", "t">>, i) THEN 7
              ELSE 0
        a == SkipSpaces(t, i + kw)
        ends == {e \in (a + 1)..SkipNameSeps(t, a) :
                    NameCaptureEnd(t, SkipSpaces(t, e)) # 0}
    IN  IF kw = 0 \/ ends = {} THEN 0 ELSE SkipSpaces(t, Max(ends))

\* (?:my name is|i am) (...) with its phrase at i
SpokenNameStart(t, i) ==
    LET kw == IF StartsAtLower(t, <<"m", "y", " ", "n", "a", "m", "e", " ", "i", "s", " ">>, i) THEN 11
              ELSE IF StartsAtLower(t, <<"i", " ", "a", "m", " ">>, i) THEN 5
              ELSE 0
    IN  IF kw = 0 \/ NameCaptureEnd(t, i + kw) = 0 THEN 0 ELSE i + kw

\* the name slot after the extraction: "Name: X" first, then "I am X"
NameAfter(before, t) ==
    LET labelled == {i \in 1..Len(t) : LabelledNameStart(t, i) # 0}
        spoken == {i \in 1..Len(t) : SpokenNameStart(t, i) # 0}
        b == IF labelled # {} THEN LabelledNameStart(t, Min(labelled))
             ELSE IF spoken # {} THEN SpokenNameStart(t, Min(spoken))
             ELSE 0
    IN  IF b = 0 THEN before ELSE SubSeq(t, b, NameCaptureEnd(t, b) - 1)

\* re.search(r"(?:product\s*)?id\s*[:\-]\s*([a-zA-Z0-9\-_]+)", text, IGNORECASE):
\* where the capture group of a match whose "id" starts at i begins, 0 if no match there
PidCaptureStart(t, i) ==
    IF ~(i + 1 <= Len(t) /\ LowerChar(t[i]) = "i" /\ LowerChar(t[i + 1]) = "d") THEN 0
    ELSE LET a == SkipSpaces(t, i + 2)
         IN  IF a > Len(t) \/ ~(t[a] = ":" \/ t[a] = "-") THEN 0
             ELSE LET b == SkipSpaces(t, a + 1)
                  IN  IF b <= Len(t) /\ IsIdChar(t[b]) THEN b ELSE 0

PidMatches(t) == {i \in 1..Len(t) : PidCaptureStart(t, i) # 0}

\* pid_match.group(1) of the leftmost match, <<>> when there is none
PidOf_Last(t) ==
    IF PidMatches(t) = {} THEN <<>>
    ELSE LET i == CHOOSE m \in PidMatches(t) : \A n \in PidMatches(t) : n <= m
             b == PidCaptureStart(t, i)
         IN  SubSeq(t, b, SkipIdChars(t, b) - 1)
PidOf(t) ==
    IF PidMatches(t) = {} THEN <<>>
    ELSE LET i == CHOOSE m \in PidMatches(t) : \A n \in PidMatches(t) : m <= n
             b == PidCaptureStart(t, i)
         IN  SubSeq(t, b, SkipIdChars(t, b) - 1)

\* has_keyword(text, keywords)
HasKeyword(t, keywords) ==
    /\ t # <<>>
    /\ LET low == Lower(t)
       IN  \E i \in 1..Len(keywords) : Contains(low, keywords[i])

\* the text of the last message whose role is "user", "" when there is none
RECURSIVE LastUserMsg(_)
LastUserMsg(msgs) ==
    IF msgs = <<>> THEN <<>>
    ELSE IF msgs[Len(msgs)].role = "user" THEN msgs[Len(msgs)].text
    ELSE LastUserMsg(SubSeq(msgs, 1, Len(msgs) - 1))

\* the text the confirmation keywords are matched against
ConfirmText_WholeHistory(msgs) == JoinSpace(UserTexts(msgs))
ConfirmText(msgs) == LastUserMsg(msgs)

\* state_cfg.get(...) defaults
DefaultConfirmKeywords ==
    <<<<"c", "o", "n", "f", "i", "r", "m">>, <<"s", "e", "n", "d", " ", "i", "t">>, <<"y", "e", "s">>, <<"o", "k">>, <<"s", "u", "r", "e">>, <<"p", "l", "e", "a", "s", "e", " ", "d", "o">>>>
DefaultCompletionKeywords ==
    <<<<"t", "h", "a", "n", "k", " ", "y", "o", "u">>, <<"t", "h", "a", "n", "k", "s">>, <<"d", "o", "n", "e">>, <<"f", "i", "n", "i", "s", "h", "e", "d">>, <<"b", "y", "e">>>>

\* config == None or without "state_management"
CfgDefault ==
    [confirmation_keywords |-> DefaultConfirmKeywords,
     completion_keywords |-> DefaultCompletionKeywords,
     reset_confirmation_on_change |-> TRUE,
     reset_confirmation_on_completion |-> TRUE]

\* the state_management block of the acceptance tests: confirmation_keywords is a
\* dict, and "for k in keywords" walks its keys
CfgAcceptance ==
    [CfgDefault EXCEPT !.confirmation_keywords = <<<<"s", "t", "r", "o", "n", "g">>, <<"w", "e", "a", "k">>, <<"a", "s", "k", "_", "c", "o", "n", "f", "i", "r", "m">>>>]

CfgStickyConfirm == [CfgDefault EXCEPT !.reset_confirmation_on_change = FALSE]

CfgNoCompletionReset == [CfgDefault EXCEPT !.reset_confirmation_on_completion = FALSE]

Configs == {CfgDefault, CfgAcceptance, CfgStickyConfirm, CfgNoCompletionReset}

\* the confirmation slot after the update
ConfirmAfter(before, msgs, cfg) ==
    LET last == ConfirmText(msgs)
        c1 == IF HasKeyword(last, cfg.confirmation_keywords) THEN "True"
              ELSE IF cfg.reset_confirmation_on_change THEN "False"
              ELSE before
    IN  IF cfg.reset_confirmation_on_completion
           /\ HasKeyword(last, cfg.completion_keywords)
        THEN "False" ELSE c1

\* update_state_from_messages(state, messages, config)
UpdateStateFromMessages(state, msgs, cfg) ==
    LET combined == JoinSpace(UserTexts(msgs))
        pid == PidOf(combined)
        sl0 == [state.slots EXCEPT !.email = EmailAfter(@, combined),
                                   !.name = NameAfter(@, combined)]
        sl1 == IF pid # <<>>
               THEN [sl0 EXCEPT
                       !.product_id = pid,
                       !.product_slug = IF @ = <<>> THEN pid ELSE @]
               ELSE sl0
        sl2 == [sl1 EXCEPT !.confirm_send = ConfirmAfter(@, msgs, cfg)]
    IN  [state EXCEPT !.slots = sl2, !.recent_turns = LastN(msgs, RecentTurnsCap)]

(***************************************************************************)
(* What users type in the model, and the requests built from it.           *)
(***************************************************************************)
TxtYes == <<"y", "e", "s">>
TxtOk == <<"o", "k">>
TxtSendIt == <<"s", "e", "n", "d", " ", "i", "t">>
TxtConfirmSend == <<"c", "o", "n", "f", "i", "r", "m", " ", "s", "e", "n", "d">>
TxtYesSendIt == <<"y", "e", "s", ",", " ", "s", "e", "n", "d", " ", "i", "t">>
TxtHello == <<"h", "e", "l", "l", "o">>
TxtThanks == <<"t", "h", "a", "n", "k", "s">>
TxtId1 == <<"I", "D", ":", " ", "p", "1">>
TxtId2 == <<"I", "D", ":", " ", "p", "2">>
TxtIntro == <<"I", " ", "a", "m", " ", "B", "o", "b", ",", " ", "m", "a", "i", "l", ":", " ", "a", "@", "b", ".", "c", "o">>

UserTextSet == {TxtYes, TxtOk, TxtSendIt, TxtConfirmSend, TxtYesSendIt, TxtHello,
                TxtThanks, TxtId1, TxtId2, TxtIntro}

\* one chat turn as the routes hand it over: {"role": ..., "text": ...}
Turns == [role : {"user"}, text : UserTextSet] \cup [role : {"assistant"}, text : {TxtOk}]

\* the message list of the next request: the client resends the history it
\* holds with one more turn, starts over, or slides its window by one
RequestModes == {"extend", "restart", "slide"}
NextMessages(history, mode, turn) ==
    IF mode = "extend" THEN Append(history, turn)
    ELSE IF mode = "slide" /\ history # <<>> THEN Append(Tail(history), turn)
    ELSE <<turn>>

\* what the routes persist: the assistant's reply, and the result of a tool
\* as a "user" turn
PersistedTurns == {[role |-> "assistant", text |-> TxtOk], [role |-> "user", text |-> TxtOk]}

UpdInit ==
    /\ u_cfg \in Configs
    /\ u_state = NewState(1, 1, "en", 0)
    /\ u_prev = "none"
    /\ u_persisted = <<>>

\* one request of the conversation: _manage_state runs the updater on its state
UpdateRequest(mode, turn) ==
    /\ Len(NextMessages(u_state.recent_turns, mode, turn)) <= MaxMsgs
    /\ u_state' = UpdateStateFromMessages(
                     u_state, NextMessages(u_state.recent_turns, mode, turn), u_cfg)
    /\ u_prev' = u_state.slots.confirm_send
    /\ UNCHANGED <<u_cfg, u_persisted>>

\* persist_turn(conversation_id, role, content): append, keep the last 20
PersistTurn(turn) ==
    /\ Len(u_persisted) < MaxPersisted
    /\ Len(u_state.recent_turns) < MaxMsgs
    /\ u_state' = [u_state EXCEPT
                      !.recent_turns = LastN(Append(@, turn), RecentTurnsCap)]
    /\ u_persisted' = Append(u_persisted, turn)
    /\ UNCHANGED <<u_cfg, u_prev>>

(***************************************************************************)
(* Tool arguments, schemas and the product resolver.                       *)
(***************************************************************************)
\* a key the mapping does not have, Python's None, and a value that is no string
Absent == "<absent>"
NoneV == "<None>"
NonString == "<int>"

FieldNames == {"name", "email", "message", "product_id", "product_slug", "query", "source"}

\* bool(v) for what dict.get hands back
Truthy(v) == v \notin {Absent, NoneV, ""}

\* the catalog the resolver is built from
Catalog == {[id |-> "p1", slug |-> "s1"], [id |-> "p2", slug |-> "s2"]}
NoProduct == [id |-> Absent, slug |-> Absent]

ById(pid) ==
    IF \E p \in Catalog : p.id = pid THEN CHOOSE p \in Catalog : p.id = pid ELSE NoProduct
BySlug(slug) ==
    IF \E p \in Catalog : p.slug = slug THEN CHOOSE p \in Catalog : p.slug = slug ELSE NoProduct

\* ProductResolver.resolve(product_id, product_slug)
Resolve(pid, slug) ==
    IF ~Truthy(pid) /\ ~Truthy(slug) THEN NoProduct
    ELSE IF Truthy(pid) /\ Truthy(slug) THEN
        (IF ById(pid) # NoProduct THEN ById(pid) ELSE NoProduct)
    ELSE IF Truthy(pid) THEN ById(pid)
    ELSE BySlug(slug)

\* the schemas of the configurations in the source: parameters.properties (all
\* strings), parameters.required, and additionalProperties is False
SchemaInjection ==
    [props |-> {"name", "email", "message", "product_id", "product_slug"},
     required |-> {"name", "email", "message"}, forbidExtra |-> FALSE]
SchemaAcceptance ==
    [props |-> {"name", "email", "message", "product_id", "product_slug"},
     required |-> {"name", "email", "message"}, forbidExtra |-> TRUE]
SchemaSearch == [props |-> {"query"}, required |-> {"query"}, forbidExtra |-> FALSE]
SchemaDetails == [props |-> {"product_id"}, required |-> {"product_id"}, forbidExtra |-> FALSE]
SchemaEmpty == [props |-> {}, required |-> {}, forbidExtra |-> FALSE]

SendInquirySchemas == {"injection", "acceptance"}

\* registry._tools: the configured tools, their handler key and their schema
ToolNoHandler == "tool_without_handler"
Registered == {"send_inquiry", "product_search", "get_product_details", "price_estimate",
               ToolNoHandler}
ToolNames == Registered \cup {"unknown_tool"}
HandlerKey(tool) == IF tool = ToolNoHandler THEN NoneV ELSE tool
\* dispatcher._handlers: price_estimate is configured but never registered
Implemented == {"send_inquiry", "product_search", "get_product_details"}

Parameters(tool, schema) ==
    IF tool = "send_inquiry"
    THEN (IF schema = "acceptance" THEN SchemaAcceptance ELSE SchemaInjection)
    ELSE IF tool = "product_search" THEN SchemaSearch
    ELSE IF tool = "get_product_details" THEN SchemaDetails
    ELSE SchemaEmpty

\* the pydantic model create_tool_validator builds: does validator_cls(**f) raise
\* ValidationError?
MissingRequired(sc, f) == \E x \in sc.props \cap sc.required : f[x] \in {Absent, NoneV}
WrongType(sc, f) == \E x \in sc.props : f[x] = NonString
UndeclaredField(sc, f) == \E x \in FieldNames \ sc.props : f[x] # Absent
RejectsExtra(sc, f) == sc.forbidExtra /\ UndeclaredField(sc, f)
ValidationFails(sc, f) == MissingRequired(sc, f) \/ WrongType(sc, f) \/ RejectsExtra(sc, f)

\* validated.model_dump(): the declared fields, None where the caller gave nothing
ModelDump(sc, f) ==
    [x \in FieldNames |-> IF x \in sc.props THEN (IF f[x] = Absent THEN NoneV ELSE f[x])
                          ELSE Absent]

NoFields == [x \in FieldNames |-> Absent]
NoCall == [called |-> FALSE, f |-> NoFields]

\* the values a caller may pass as tool_args: JSON objects, and any other JSON value
ArgMaps ==
    {f \in [FieldNames -> {Absent, "", "v", "p1", "p2", "s1", "s2", "zz", NonString}] :
        /\ f["name"] \in {Absent, "", "v", NonString}
        /\ f["email"] \in {Absent, "v"}
        /\ f["message"] \in {Absent, "v"}
        /\ f["product_id"] \in {Absent, "p1", "p2", "zz"}
        /\ f["product_slug"] \in {Absent, "s1", "s2", "zz"}
        /\ f["query"] \in {Absent, "v"}
        /\ f["source"] \in {Absent, "v"}}
ArgValues == [isMap : {TRUE}, f : ArgMaps] \cup {[isMap |-> FALSE, f |-> NoFields]}

\* ctx.active_product: nothing, a catalog product, or a reference no longer valid
Pins == {NoProduct, [id |-> "p1", slug |-> "s1"], [id |-> "p2", slug |-> "s2"],
         [id |-> "zz", slug |-> "s1"]}

(***************************************************************************)
(* ToolDispatcher.dispatch                                                 *)
(***************************************************************************)
ErrorResult(kind) == [outcome |-> "returned", error |-> kind]
Propagated == [outcome |-> "raised", error |-> "exception"]
OkResult == [outcome |-> "returned", error |-> ""]

\* the product the send_inquiry branch settles on: the pinned one when it
\* resolves, else the one the caller's arguments name
PinnedProduct(args, pin) ==
    IF pin # NoProduct /\ Resolve(pin.id, pin.slug) # NoProduct
    THEN Resolve(pin.id, pin.slug)
    ELSE Resolve(args.f["product_id"], args.f["product_slug"])

\* tool_args after the send_inquiry branch
InjectProduct(tool, args, pin) ==
    IF tool = "send_inquiry" /\ PinnedProduct(args, pin) # NoProduct
    THEN [args.f EXCEPT !["product_id"] = PinnedProduct(args, pin).id,
                        !["product_slug"] = PinnedProduct(args, pin).slug]
    ELSE args.f

\* the exception the resolution-and-validation block ends in, "none" if it has
\* tool_args validated: a value that is no mapping fails at .get (AttributeError),
\* at the item assignment or at ** (TypeError)
BlockException(tool, args, pin, sc) ==
    IF ~args.isMap
    THEN (IF tool = "send_inquiry" /\ Resolve(pin.id, pin.slug) = NoProduct
          THEN "AttributeError" ELSE "TypeError")
    ELSE IF ValidationFails(sc, InjectProduct(tool, args, pin)) THEN "ValidationError"
    ELSE "none"

\* except (ValidationError, ValueError)
CaughtInBlock == {"ValidationError", "ValueError"}

\* dispatch(tool_name, tool_args, ctx) with a handler that raises or returns
DispatchRes(tool, args, pin, schema, handlerRaises) ==
    LET sc == Parameters(tool, schema)
        exc == BlockException(tool, args, pin, sc)
    IN  IF tool \notin Registered
            THEN [result |-> ErrorResult("not_configured"), handler |-> NoCall]
        ELSE IF HandlerKey(tool) = NoneV
            THEN [result |-> ErrorResult("no_handler"), handler |-> NoCall]
        ELSE IF exc # "none"
            THEN [result |-> IF exc \in CaughtInBlock
                             THEN ErrorResult("validation") ELSE Propagated,
                  handler |-> NoCall]
        ELSE IF HandlerKey(tool) \notin Implemented
            THEN [result |-> ErrorResult("missing_implementation"), handler |-> NoCall]
        ELSE [result |-> IF handlerRaises THEN ErrorResult("handler") ELSE OkResult,
              handler |-> [called |-> TRUE,
                           f |-> ModelDump(sc, InjectProduct(tool, args, pin))]]

DispInit ==
    /\ d_schema \in SendInquirySchemas
    /\ d_tool \in ToolNames
    /\ d_args \in ArgValues
    /\ d_pin \in Pins
    /\ d_phase = "called"
    /\ d_result = OkResult
    /\ d_handler = NoCall

DispIdle ==
    /\ d_schema = "injection"
    /\ d_tool = "unknown_tool"
    /\ d_args = [isMap |-> TRUE, f |-> NoFields]
    /\ d_pin = NoProduct
    /\ d_phase = "idle"
    /\ d_result = OkResult
    /\ d_handler = NoCall

\* the call runs to its end
Dispatch(handlerRaises) ==
    /\ d_phase = "called"
    /\ LET r == DispatchRes(d_tool, d_args, d_pin, d_schema, handlerRaises)
       IN  /\ d_result' = r.result
           /\ d_handler' = r.handler
           /\ d_phase' = IF r.result.outcome = "raised" THEN "raised" ELSE "returned"
    /\ UNCHANGED <<d_schema, d_tool, d_args, d_pin>>

(***************************************************************************)
(* ChatService.process_tool_call and the agent loop of the chat routes.    *)
(***************************************************************************)
MAX_TURNS == 2

\* what a handler does once called: returns a result, returns {"ok": False}, raises
HandlerOutcomes == {"ok", "fail", "raise"}

ArgsOf(fields) == [isMap |-> TRUE, f |-> [x \in FieldNames |->
                       IF x \in DOMAIN fields THEN fields[x] ELSE Absent]]
NotAMapping == [isMap |-> FALSE, f |-> NoFields]

Contact == [name |-> "v", email |-> "v", message |-> "v"]

\* the tool calls the provider may emit: name and parsed arguments
ModelToolCalls ==
    {[name |-> "send_inquiry",
      args |-> ArgsOf([name |-> "v", email |-> "v", message |-> "v",
                       product_id |-> "p2", product_slug |-> "s2"])],
     [name |-> "send_inquiry", args |-> ArgsOf(Contact)],
     [name |-> "send_inquiry", args |-> ArgsOf([email |-> "v", message |-> "v"])],
     [name |-> "send_inquiry", args |-> NotAMapping],
     [name |-> "product_search", args |-> ArgsOf([query |-> "v"])],
     [name |-> "product_search", args |-> NotAMapping],
     [name |-> "unknown_tool", args |-> ArgsOf(<<>>)]}
NoToolCall == [name |-> "", args |-> ArgsOf(<<>>)]

\* ToolContext(store=..., mailer=..., locale=..., settings=..., slots=...,
\* session_logger=...): active_product keeps its default, whatever the focus
CtxActiveProduct(focus) == NoProduct

\* the pre-execution checks of send_inquiry
MissingFields(args) ==
    ~(Truthy(args.f["name"]) /\ Truthy(args.f["email"]) /\ Truthy(args.f["message"]))

\* process_tool_call(tool_name, tool_args, ctx, allow_actions)
ProcessToolCall(call, req, outcome) ==
    LET blank == [raised |-> FALSE, skip |-> "", ui_action |-> "", system_msg |-> FALSE,
                  dispatched |-> FALSE, handler |-> NoCall]
        args1 == IF call.name = "send_inquiry"
                 THEN [call.args EXCEPT !.f["source"] = "chat_tool"]
                 ELSE call.args
        r == DispatchRes(call.name, args1, CtxActiveProduct(req.focus), req.schema,
                         outcome = "raise")
        failed == r.result.error # "" \/ (r.handler.called /\ outcome = "fail")
    IN  IF call.name = "send_inquiry" /\ ~req.allow_actions
            THEN [blank EXCEPT !.skip = "allow_actions=False"]
        ELSE IF call.name = "send_inquiry" /\ ~call.args.isMap
            THEN [blank EXCEPT !.raised = TRUE]
        ELSE IF call.name = "send_inquiry" /\ MissingFields(call.args)
            THEN [blank EXCEPT !.skip = "missing_fields"]
        ELSE IF r.result.outcome = "raised"
            THEN [blank EXCEPT !.raised = TRUE, !.dispatched = TRUE]
        ELSE IF failed
            THEN [blank EXCEPT !.dispatched = TRUE, !.handler = r.handler,
                               !.system_msg = TRUE,
                               !.ui_action = IF call.name = "send_inquiry"
                                             THEN "send_inquiry_failed" ELSE ""]
        ELSE [blank EXCEPT !.dispatched = TRUE, !.handler = r.handler,
                           !.system_msg = TRUE,
                           !.ui_action = IF call.name \in {"send_inquiry", "product_search"}
                                         THEN call.name ELSE ""]

\* for turn in range(MAX_TURNS)
LoopContinues_Unbounded(turn) == TRUE
LoopContinues(turn) == turn < MAX_TURNS

\* what the route sends when it finishes normally
FinalEvents(stream) == IF stream THEN <<"final", "done">> ELSE <<"response">>
EndOfLoopEvents(stream) == IF stream THEN <<"done">> ELSE <<"response">>
ActionEvents(stream, ui_action) ==
    IF ~stream THEN <<>>
    ELSE IF ui_action = "product_search" THEN <<"final">>
    ELSE IF ui_action = "send_inquiry" THEN <<"action_event">>
    ELSE <<>>

\* a sensitive call that must not run: actions not allowed, or a contact field missing
GateFails(call, req) ==
    /\ call.name = "send_inquiry"
    /\ (~req.allow_actions \/ ~call.args.isMap \/ MissingFields(call.args))

\* settings.llm_backend: the OpenAI Responses adapter or the LiteLLM one
Backends == {"openai", "litellm"}

\* _stream_litellm collects the tool calls and yields them after the stream
EmitsAtEnd(backend) == backend = "litellm"

\* does the adapter yield a tool_call event for a completed tool call?
\* _stream_openai_responses yields the first only (emitted_tool_call),
\* _stream_litellm yields every collected call
AdapterEmits(backend, emitted) == backend = "litellm" \/ ~emitted

\* what the route passes to the client for an adapter event of this type:
\* chat_stream has branches for "delta", "tool_call" and "done" only
RouteEvents(type) == <<>>

NoFailure == [calls |-> 0, dispatches |-> 0, events |-> 0]
FailureNow == [calls |-> l_calls, dispatches |-> l_dispatches, events |-> Len(l_events)]

\* the adapter has not ended the stream of this model call
StreamOpen == l_fail.calls # l_calls

\* the generator reaches the yields of these events and then goes on to the
\* given phase. A generator runs from one yield to the next without
\* interruption; once the client has gone it is not resumed after the first
\* yield it reaches: it is closed there (GeneratorExit, which no
\* `except Exception` catches), and `finally` closes the session logger.
\* The plain route closes the logger on both of its return paths.
Yielding(out, phase, end) ==
    IF l_conn = "gone" /\ out # <<>>
    THEN /\ l_events' = l_events
         /\ l_phase' = "ended"
         /\ l_end' = "disconnected"
         /\ l_logger' = "closed"
         /\ l_susp' = FALSE
    ELSE /\ l_events' = l_events \o out
         /\ l_phase' = phase
         /\ l_end' = end
         /\ l_logger' = IF phase = "ended" THEN "closed" ELSE l_logger
         /\ l_susp' = (out # <<>> /\ phase # "ended")

LoopInit ==
    /\ l_req \in [stream : BOOLEAN, allow_actions : BOOLEAN,
                  focus : {NoProduct, [id |-> "p1", slug |-> "s1"]},
                  schema : SendInquirySchemas, backend : Backends]
    /\ l_req.stream \/ l_req.backend = "openai"
    /\ l_phase = "turn"
    /\ l_turn = 0
    /\ l_calls = 0
    /\ l_dispatches = 0
    /\ l_called = FALSE
    /\ l_pending = NoToolCall
    /\ l_deltas = 0
    /\ l_toolcalls = 0
    /\ l_events = <<>>
    /\ l_handled = <<>>
    /\ l_end = "running"
    /\ l_first = NoToolCall
    /\ l_fwd = 0
    /\ l_fail = NoFailure
    /\ l_conn = "open"
    /\ l_gone = NoFailure
    /\ l_susp = FALSE
    /\ l_logger = "open"

LoopIdle ==
    /\ l_req = [stream |-> FALSE, allow_actions |-> FALSE, focus |-> NoProduct,
                schema |-> "injection", backend |-> "openai"]
    /\ l_phase = "ended"
    /\ l_turn = 0
    /\ l_calls = 0
    /\ l_dispatches = 0
    /\ l_called = FALSE
    /\ l_pending = NoToolCall
    /\ l_deltas = 0
    /\ l_toolcalls = 0
    /\ l_events = <<>>
    /\ l_handled = <<>>
    /\ l_end = "running"
    /\ l_first = NoToolCall
    /\ l_fwd = 0
    /\ l_fail = NoFailure
    /\ l_conn = "open"
    /\ l_gone = NoFailure
    /\ l_susp = FALSE
    /\ l_logger = "open"

\* the top of the loop body: llm.stream(...) / llm.complete(...) is called
ModelCall ==
    /\ l_phase = "turn"
    /\ LoopContinues(l_turn)
    /\ l_phase' = "stream"
    /\ l_calls' = l_calls + 1
    /\ l_called' = FALSE
    /\ l_pending' = NoToolCall
    /\ l_first' = NoToolCall
    /\ l_fwd' = 0
    /\ l_susp' = FALSE
    /\ UNCHANGED <<l_req, l_turn, l_dispatches, l_deltas, l_toolcalls, l_events,
                   l_handled, l_end, l_fail, l_conn, l_gone, l_logger>>

\* a "delta" event of the stream is passed on
StreamDelta ==
    /\ l_phase = "stream"
    /\ l_req.stream
    /\ StreamOpen
    /\ ~EmitsAtEnd(l_req.backend) \/ ~l_called
    /\ l_deltas < MaxDeltas
    /\ l_deltas' = l_deltas + 1
    /\ Yielding(<<"delta">>, l_phase, l_end)
    /\ UNCHANGED <<l_req, l_turn, l_calls, l_dispatches, l_called, l_pending,
                   l_toolcalls, l_handled, l_first, l_fwd, l_fail, l_conn, l_gone>>

\* the provider completes a tool call. The adapter turns it into a "tool_call"
\* event unless it drops it (AdapterEmits); the route passes every such event
\* on and makes it the pending tool. The plain route gets the one tool_call
\* of the completion.
StreamToolCall(call) ==
    /\ l_phase = "stream"
    /\ StreamOpen
    /\ l_toolcalls < MaxToolCalls
    /\ l_req.stream \/ ~l_called
    /\ l_toolcalls' = l_toolcalls + 1
    /\ l_first' = IF l_first = NoToolCall THEN call ELSE l_first
    /\ IF ~l_req.stream \/ AdapterEmits(l_req.backend, l_first # NoToolCall)
       THEN /\ l_pending' = call
            /\ l_called' = TRUE
            /\ Yielding(IF l_req.stream THEN <<"tool_call">> ELSE <<>>, l_phase, l_end)
            /\ l_fwd' = IF l_req.stream /\ l_conn = "open" THEN l_fwd + 1 ELSE l_fwd
       ELSE UNCHANGED <<l_pending, l_called, l_events, l_fwd, l_phase, l_end,
                        l_logger, l_susp>>
    /\ UNCHANGED <<l_req, l_turn, l_calls, l_dispatches, l_deltas, l_handled,
                   l_fail, l_conn, l_gone>>

\* the provider fails while the adapter reads its stream: the adapter catches
\* the exception and yields an "error" event and then "done". The route has
\* no branch for "error" events, so nothing is passed on; the tool calls
\* the LiteLLM adapter had collected for the end of the stream are lost.
ProviderFails ==
    /\ l_phase = "stream"
    /\ l_req.stream
    /\ StreamOpen
    /\ ~EmitsAtEnd(l_req.backend) \/ ~l_called
    /\ l_fail' = FailureNow
    /\ Yielding(RouteEvents("error"), l_phase, l_end)
    /\ UNCHANGED <<l_req, l_turn, l_calls, l_dispatches, l_called, l_pending,
                   l_deltas, l_toolcalls, l_handled, l_first, l_fwd, l_conn, l_gone>>

\* an exception leaves the provider call (complete re-raises; stream raises
\* what happens outside the adapter's try blocks): an error event ends the
\* stream, the plain route answers with HTTP 500
ProviderRaises ==
    /\ l_phase = "stream"
    /\ StreamOpen
    /\ l_req.stream \/ ~l_called
    /\ l_fail' = FailureNow
    /\ Yielding(IF l_req.stream THEN <<"error">> ELSE <<"http_500">>, "ended",
                "provider_error")
    /\ UNCHANGED <<l_req, l_turn, l_calls, l_dispatches, l_called, l_pending, l_deltas,
                   l_toolcalls, l_handled, l_first, l_fwd, l_conn, l_gone>>

\* the provider's answer is complete: the rest of the loop body runs
StreamDone(outcome) ==
    /\ l_phase = "stream"
    /\ LET p == ProcessToolCall(l_pending, l_req, outcome)
           handled == IF p.handler.called
                      THEN Append(l_handled,
                                  [tool |-> l_pending.name, f |-> p.handler.f,
                                   gated |-> GateFails(l_pending, l_req)])
                      ELSE l_handled
       IN  IF ~l_called THEN
               /\ Yielding(FinalEvents(l_req.stream), "ended", "returned")
               /\ UNCHANGED <<l_turn, l_dispatches, l_handled>>
           ELSE IF p.raised THEN
               /\ Yielding(IF l_req.stream THEN <<>> ELSE <<"http_500">>, "ended",
                           "exception")
               /\ l_dispatches' = IF p.dispatched THEN l_dispatches + 1 ELSE l_dispatches
               /\ UNCHANGED <<l_turn, l_handled>>
           ELSE IF p.skip # "" THEN
               /\ Yielding(FinalEvents(l_req.stream), "ended", "skipped")
               /\ UNCHANGED <<l_turn, l_dispatches, l_handled>>
           ELSE
               /\ l_dispatches' = l_dispatches + 1
               /\ l_handled' = handled
               /\ l_turn' = l_turn + 1
               /\ IF LoopContinues(l_turn + 1)
                  THEN Yielding(ActionEvents(l_req.stream, p.ui_action), "turn", l_end)
                  ELSE Yielding(ActionEvents(l_req.stream, p.ui_action)
                                    \o EndOfLoopEvents(l_req.stream),
                                "ended", "returned")
    /\ UNCHANGED <<l_req, l_calls, l_called, l_pending, l_deltas, l_toolcalls, l_first,
                   l_fwd, l_fail, l_conn, l_gone>>

\* the client goes away while the response is being produced (the first
\* model call has been made)
Disconnect ==
    /\ l_req.stream
    /\ l_phase # "ended"
    /\ l_calls > 0
    /\ l_conn = "open"
    /\ l_conn' = "gone"
    /\ l_gone' = FailureNow
    /\ UNCHANGED <<l_req, l_phase, l_turn, l_calls, l_dispatches, l_called, l_pending,
                   l_deltas, l_toolcalls, l_events, l_handled, l_end, l_first, l_fwd,
                   l_fail, l_susp, l_logger>>

\* the client went away while the generator was suspended at a yield: it is
\* not resumed, and closing it runs `finally`
GeneratorClosed ==
    /\ l_conn = "gone"
    /\ l_phase # "ended"
    /\ l_susp
    /\ l_phase' = "ended"
    /\ l_end' = "disconnected"
    /\ l_logger' = "closed"
    /\ l_susp' = FALSE
    /\ UNCHANGED <<l_req, l_turn, l_calls, l_dispatches, l_called, l_pending, l_deltas,
                   l_toolcalls, l_events, l_handled, l_first, l_fwd, l_fail, l_conn,
                   l_gone>>

(***************************************************************************)
(* handle_send_inquiry: insert, deliver, record the outcome.               *)
(***************************************************************************)
NoResult == [ok |-> FALSE, inquiry_id |-> 0, error |-> "", raised |-> FALSE]

\* where the handler goes after insert_inquiry
AfterInsert_SendAnyway(inserted, mailer) == IF mailer THEN "send" ELSE "idle"
AfterInsert(inserted, mailer) == IF inserted /\ mailer THEN "send" ELSE "idle"

InqInit ==
    /\ h_db = <<>>
    /\ h_mailer \in BOOLEAN
    /\ h_pc = "idle"
    /\ h_id = 0
    /\ h_log = <<>>
    /\ h_delivery = "none"
    /\ h_result = NoResult

InqIdle ==
    /\ h_db = <<>>
    /\ h_mailer = FALSE
    /\ h_pc = "idle"
    /\ h_id = 0
    /\ h_log = <<>>
    /\ h_delivery = "none"
    /\ h_result = NoResult

\* the dispatcher calls the handler
CallSendInquiry ==
    /\ h_pc = "idle"
    /\ Len(h_db) < MaxInquiries
    /\ h_pc' = "insert"
    /\ h_id' = 0
    /\ h_log' = <<>>
    /\ h_delivery' = "none"
    /\ h_result' = NoResult
    /\ UNCHANGED <<h_db, h_mailer>>

\* 1. insert_inquiry(...): a 'pending' row, or the database raises
InsertInquiry(inserted) ==
    /\ h_pc = "insert"
    /\ h_pc' = AfterInsert(inserted, h_mailer)
    /\ h_db' = IF inserted THEN Append(h_db, "pending") ELSE h_db
    /\ h_id' = IF inserted THEN Len(h_db) + 1 ELSE 0
    /\ h_log' = Append(h_log, IF inserted THEN "insert" ELSE "insert_failed")
    /\ h_result' =
          IF ~inserted THEN [NoResult EXCEPT !.error = "Database error"]
          ELSE IF ~h_mailer THEN [NoResult EXCEPT !.ok = TRUE, !.inquiry_id = Len(h_db) + 1]
          ELSE h_result
    /\ UNCHANGED <<h_mailer, h_delivery>>

\* 2. ctx.mailer.send_inquiry(...): delivered, or the mailer raises
SendEmail(delivered) ==
    /\ h_pc = "send"
    /\ h_log' = Append(h_log, "send")
    /\ h_delivery' = IF delivered THEN "sent" ELSE "failed"
    /\ h_pc' = IF delivered THEN "mark_sent" ELSE "mark_failed"
    /\ UNCHANGED <<h_db, h_mailer, h_id, h_result>>

\* mark_inquiry_sent(...): if the update raises, the except branch runs
MarkSent(written) ==
    /\ h_pc = "mark_sent"
    /\ h_db' = IF written THEN [h_db EXCEPT ![h_id] = "sent"] ELSE h_db
    /\ h_log' = Append(h_log, IF written THEN "mark_sent" ELSE "mark_sent_failed")
    /\ h_pc' = IF written THEN "idle" ELSE "mark_failed"
    /\ h_result' = IF written THEN [NoResult EXCEPT !.ok = TRUE, !.inquiry_id = h_id]
                   ELSE h_result
    /\ UNCHANGED <<h_mailer, h_id, h_delivery>>

\* the except branch: mark_inquiry_failed(...), then the failure result; if the
\* update raises, the exception leaves the handler
MarkFailed(written) ==
    /\ h_pc = "mark_failed"
    /\ h_db' = IF written THEN [h_db EXCEPT ![h_id] = "failed"] ELSE h_db
    /\ h_log' = Append(h_log, IF written THEN "mark_failed" ELSE "mark_failed_failed")
    /\ h_pc' = "idle"
    /\ h_result' = IF written THEN [NoResult EXCEPT !.inquiry_id = h_id, !.error = "send"]
                   ELSE [NoResult EXCEPT !.raised = TRUE]
    /\ UNCHANGED <<h_mailer, h_id, h_delivery>>

(***************************************************************************)
(* ProductRAG: _norm, exact_match, build_index with the embedding cache,   *)
(* NumpyIndex and retrieve (product_rag.py, vector_index.py, db.py).       *)
(***************************************************************************)
MaxProducts == 2
MaxK == 1
MaxBuilds == 3

\* str.strip()
RECURSIVE LStrip(_)
LStrip(t) == IF t # <<>> /\ IsSpace(Head(t)) THEN LStrip(Tail(t)) ELSE t
RECURSIVE RStrip(_)
RStrip(t) ==
    IF t # <<>> /\ IsSpace(t[Len(t)]) THEN RStrip(SubSeq(t, 1, Len(t) - 1)) ELSE t
Strip(t) == RStrip(LStrip(t))

\* re.sub(r"\s+", " ", s)
RECURSIVE Collapse(_)
Collapse(t) ==
    IF t = <<>> THEN <<>>
    ELSE IF IsSpace(Head(t)) THEN <<" ">> \o Collapse(LStrip(Tail(t)))
    ELSE <<Head(t)>> \o Collapse(Tail(t))

\* re.sub(r"[()...\[\]...{}<>]", " ", s), the ASCII members of the class
Brackets == {"(", ")", "[", "]", "{", "}", "<", ">"}
RECURSIVE BracketsToSpace(_)
BracketsToSpace(t) ==
    IF t = <<>> THEN <<>>
    ELSE <<IF Head(t) \in Brackets THEN " " ELSE Head(t)>> \o BracketsToSpace(Tail(t))

\* _norm(s)
Norm(s) == Collapse(BracketsToSpace(Collapse(Lower(Strip(s)))))

\* the catalog items: id, slug, the names (en, zh) and the rest of the
\* content (rev: two revisions of one product differ in their description)
ItemBag == [id |-> <<"P", "1">>, slug |-> <<"b", "1">>,
            names |-> <<<<"B", "a", "g">>, <<>>>>, rev |-> 1]
ItemBagEdited == [ItemBag EXCEPT !.rev = 2]
ItemTent == [id |-> <<"p", "1", "0">>, slug |-> <<"s", "2">>,
             names |-> <<<<"t", "e", "n", "t">>, <<"t", "e", "n", "t">>>>, rev |-> 1]
Items == {ItemBag, ItemBagEdited, ItemTent}

Catalogs == UNION {[1..n -> Items] : n \in 0..MaxProducts}

QueryP1 == <<"p", "1">>
QueryP10 == <<" ", "P", "1", "0", "?">>
QuerySlug == <<"(", "S", "2", ")">>
QueryName == <<"a", " ", "t", "e", "n", "t">>
QueryHello == <<"h", "e", "l", "l", "o">>
QueryBlank == <<" ", " ">>
Queries == {QueryP1, QueryP10, QuerySlug, QueryName, QueryHello, QueryBlank}

\* the first product of the list among the hits of a tier, 0 if none
FirstProduct(products, hits) ==
    IF hits # {} THEN Min(hits) ELSE 0

\* tier 1 of exact_match: the normalized id or slug is part of the query
IdOrSlugIn(p, qn) ==
    LET pid == Norm(p.id)
        slug == Norm(p.slug)
    IN  (pid # <<>> /\ Contains(qn, pid)) \/ (slug # <<>> /\ Contains(qn, slug))

\* tier 2 of exact_match: a name contains the query or the query a name
NameMatches(p, qn) ==
    \E j \in DOMAIN p.names :
        LET cand == Norm(p.names[j])
        IN  cand # <<>> /\ (Contains(qn, cand) \/ Contains(cand, qn))

\* tier 3 compares names and slug with SequenceMatcher: a product without
\* any non-empty candidate is skipped
HasFuzzyCandidate(p) ==
    Norm(p.slug) # <<>> \/ \E j \in DOMAIN p.names : Norm(p.names[j]) # <<>>

\* the products a fuzzy comparison may pick: the best ratio is that of some
\* product with a candidate, or stays below the threshold (0)
FuzzyPicks(products) == {0} \cup {i \in DOMAIN products : HasFuzzyCandidate(products[i])}

\* exact_match(query, locale): the index of the hit, 0 for None
ExactMatch(products, query, fuzzy) ==
    LET qn == Norm(query)
        byId == FirstProduct(products,
                    {i \in DOMAIN products : IdOrSlugIn(products[i], qn)})
        byName == FirstProduct(products,
                    {i \in DOMAIN products : NameMatches(products[i], qn)})
    IN  IF qn = <<>> THEN 0
        ELSE IF byId # 0 THEN byId
        ELSE IF byName # 0 THEN byName
        ELSE fuzzy

\* exact_match over the catalogs and queries of the model, computed once
ExactMatchTable ==
    {<<products, query, fuzzy, ExactMatch(products, query, fuzzy)>> :
        products \in Catalogs, query \in Queries, fuzzy \in 0..MaxProducts}
ExactMatchOf(products, query, fuzzy) ==
    (CHOOSE t \in ExactMatchTable :
        t[1] = products /\ t[2] = query /\ t[3] = fuzzy)[4]

\* what the similarity computations can yield for a query: they run only
\* when the tiers before them miss
FuzzyOutcomes(products, query) ==
    IF ExactMatchOf(products, query, 0) = 0 THEN FuzzyPicks(products) ELSE {0}
Orders(n) == {o \in [1..n -> 1..n] : \A i, j \in 1..n : o[i] = o[j] => i = j}
RankOutcomes(products, query) ==
    IF ExactMatchOf(products, query, 0) = 0
    THEN Orders(Len(products)) ELSE {[i \in DOMAIN products |-> i]}

\* product_to_doc_text and sha256_text: the text lists every field of the
\* product, and the digest is taken as collision-free (the text stands for it)
DocText(p) == <<p.id, p.slug, p.names, p.rev>>
Sha256Text(text) == <<"sha256", text>>
DocHash(p) == Sha256Text(DocText(p))
Hashes == {DocHash(p) : p \in Items}

\* EmbeddingsClient.embed: the vector of a text, named by the text it is of
Embed(text) == [of |-> Sha256Text(text)]

\* the product_embeddings table has one row per (product_id, model)
ProductIds == {p.id : p \in Items}
NoRow == [doc_hash |-> <<>>, embedding |-> [of |-> <<>>]]
EmptyCache == [pid \in ProductIds |-> NoRow]

\* get_cached_product_embedding(product_id, model, doc_hash): found or not
CacheHit(cache, pid, hash) == cache[pid] # NoRow /\ cache[pid].doc_hash = hash

\* upsert_product_embedding
UpsertEmbedding(cache, pid, hash, emb) ==
    [cache EXCEPT ![pid] = [doc_hash |-> hash, embedding |-> emb]]

RECURSIVE UpsertAll(_, _, _)
UpsertAll(cache, products, idxs) ==
    IF idxs = <<>> THEN cache
    ELSE LET p == products[Head(idxs)]
         IN  UpsertAll(UpsertEmbedding(cache, p.id, DocHash(p), Embed(DocText(p))),
                       products, Tail(idxs))

\* indices of the products whose embedding the cache scan does not find
RECURSIVE MissingIdxs(_, _, _)
MissingIdxs(cache, products, i) ==
    IF i > Len(products) THEN <<>>
    ELSE IF CacheHit(cache, products[i].id, DocHash(products[i]))
         THEN MissingIdxs(cache, products, i + 1)
         ELSE <<i>> \o MissingIdxs(cache, products, i + 1)

\* how often each hash is in the batch sent to the embedder
BatchCount(products, idxs, hash) ==
    Cardinality({j \in DOMAIN idxs : DocHash(products[idxs[j]]) = hash})

\* a NumpyIndex before build: _vectors and _norms are None
NoIndex == [assigned |-> FALSE, vectors |-> <<>>, norms |-> FALSE]

\* NumpyIndex.build(vectors): np.array([]) of an empty list has one
\* dimension, and np.linalg.norm(..., axis=1) of it raises AxisError after
\* _vectors has been assigned
NumpyBuild(vecs) ==
    IF Len(vecs) = 0
    THEN [index |-> [assigned |-> TRUE, vectors |-> vecs, norms |-> FALSE],
          raised |-> TRUE]
    ELSE [index |-> [assigned |-> TRUE, vectors |-> vecs, norms |-> TRUE],
          raised |-> FALSE]

\* NumpyIndex.search(query_vector, top_k): order is argsort(-scores)
NumpySearch(index, order, top_k) ==
    IF ~index.assigned \/ Len(index.vectors) = 0 THEN <<>>
    ELSE LET k == Min({top_k, Len(index.vectors)})
         IN  IF k = 0 THEN <<>> ELSE SubSeq(order, 1, k)

\* build_index(): what it leaves behind
BuildIndexRes(products, cache, embedded) ==
    LET missing == MissingIdxs(cache, products, 1)
        vecs == [i \in DOMAIN products |->
                    IF CacheHit(cache, products[i].id, DocHash(products[i]))
                    THEN cache[products[i].id].embedding
                    ELSE Embed(DocText(products[i]))]
        built == NumpyBuild(vecs)
    IN  [cache |-> UpsertAll(cache, products, missing),
         embedded |-> [h \in Hashes |-> embedded[h] + BatchCount(products, missing, h)],
         vecs |-> vecs,
         index |-> built.index,
         raised |-> built.raised]

\* semantic_search(query, k) on an instance whose index is built
SemanticSearch(products, index, order, k) ==
    LET idxs == NumpySearch(index, order, Min({k, Len(products)}))
    IN  [j \in DOMAIN idxs |-> products[idxs[j]]]

\* KnowledgeBaseRAG.retrieve(query, k) over n chunks: build_index returns
\* before building when there are no chunks, and so does retrieve
KbRetrieve(n, order, k) ==
    IF n = 0 THEN <<>>
    ELSE NumpySearch(NumpyBuild([i \in 1..n |-> "vec"]).index, order, Min({k, n}))

NoOutcome == [op |-> "none", mode |-> "", products |-> <<>>, raised |-> FALSE,
              query |-> <<>>, k |-> 0]

RagInit ==
    /\ r_products \in Catalogs
    /\ r_cache = EmptyCache
    /\ r_embedded = [h \in Hashes |-> 0]
    /\ r_built = FALSE
    /\ r_vecs = <<>>
    /\ r_index = NoIndex
    /\ r_builds = 0
    /\ r_out = NoOutcome

RagIdle ==
    /\ r_products = <<>>
    /\ r_cache = EmptyCache
    /\ r_embedded = [h \in Hashes |-> 0]
    /\ r_built = FALSE
    /\ r_vecs = <<>>
    /\ r_index = NoIndex
    /\ r_builds = 0
    /\ r_out = NoOutcome

\* the service starts again over a catalog file that may have been edited:
\* a new ProductRAG instance, the cache database stays
Restart(products) ==
    /\ r_builds < MaxBuilds
    /\ r_products' = products
    /\ r_built' = FALSE
    /\ r_vecs' = <<>>
    /\ r_index' = NoIndex
    /\ r_out' = NoOutcome
    /\ UNCHANGED <<r_cache, r_embedded, r_builds>>

\* build_index()
BuildIndex ==
    /\ r_builds < MaxBuilds
    /\ LET b == BuildIndexRes(r_products, r_cache, r_embedded)
       IN  /\ r_cache' = b.cache
           /\ r_embedded' = b.embedded
           /\ r_built' = TRUE
           /\ r_vecs' = b.vecs
           /\ r_index' = b.index
           /\ r_out' = [NoOutcome EXCEPT !.op = "build", !.raised = b.raised]
    /\ r_builds' = r_builds + 1
    /\ UNCHANGED r_products

\* retrieve(query, locale, k): exact_match, else semantic_search, which
\* builds the index first when _vecs is None
Retrieve(query, k, fuzzy, order) ==
    LET hit == ExactMatchOf(r_products, query, fuzzy)
        builds == hit = 0 /\ ~r_built
        b == BuildIndexRes(r_products, r_cache, r_embedded)
        index == IF builds THEN b.index ELSE r_index
        fails == builds /\ b.raised
    IN  /\ builds => r_builds < MaxBuilds
        /\ r_out' = [op |-> "retrieve",
                     mode |-> IF hit # 0 THEN "exact" ELSE IF fails THEN "" ELSE "rag",
                     products |-> IF hit # 0 THEN <<r_products[hit]>>
                                  ELSE IF fails THEN <<>>
                                  ELSE SemanticSearch(r_products, index, order, k),
                     raised |-> fails, query |-> query, k |-> k]
        /\ IF builds
           THEN /\ r_cache' = b.cache
                /\ r_embedded' = b.embedded
                /\ r_built' = TRUE
                /\ r_vecs' = b.vecs
                /\ r_index' = b.index
                /\ r_builds' = r_builds + 1
           ELSE UNCHANGED <<r_cache, r_embedded, r_built, r_vecs, r_index, r_builds>>
        /\ UNCHANGED r_products

(***************************************************************************)
(* ToolRegistry.get_allowed_tools: which tools the model is offered.       *)
(***************************************************************************)
\* state_management.confirmation_slot
ConfirmSlot == "confirm_send"

RegistryTools == <<"send_inquiry", "product_search">>
Intents == {"general", "broad_product"}
\* intent "" stands for a route plan without an intent
PlanIntents == Intents \cup {""}
Stages == {"", ConfirmSlot}

ToolSpecs == [enabled : BOOLEAN, confirmation_required : BOOLEAN,
              intents : SUBSET Intents, slots_missing : BOOLEAN]

\* the stage gate: while the user confirms a send, only tools that require
\* confirmation stay
StageAllows(spec, stage) == ~(stage = ConfirmSlot /\ ~spec.confirmation_required)

\* the intent gate
IntentAllows_Strict(spec, intent, stage) ==
    ~(intent # "" /\ spec.intents # {}) \/ intent \in spec.intents
IntentAllows(spec, intent, stage) ==
    \/ ~(intent # "" /\ spec.intents # {})
    \/ stage = ConfirmSlot /\ spec.confirmation_required
    \/ intent \in spec.intents

\* one pass of the loop over self._tools.values(): required_slots are not
\* checked (the branch only passes)
Allowed(spec, plan) ==
    /\ spec.enabled
    /\ StageAllows(spec, plan.stage)
    /\ IntentAllows(spec, plan.intent, plan.stage)

\* get_allowed_tools(locale, route_plan, slots): the tools_out list
RECURSIVE AllowedTools(_, _, _)
AllowedTools(tools, plan, i) ==
    IF i > Len(RegistryTools) THEN <<>>
    ELSE (IF Allowed(tools[RegistryTools[i]], plan) THEN <<RegistryTools[i]>> ELSE <<>>)
         \o AllowedTools(tools, plan, i + 1)

RegInit ==
    /\ t_tools \in [{RegistryTools[i] : i \in DOMAIN RegistryTools} -> ToolSpecs]
    /\ t_plan \in [intent : PlanIntents, stage : Stages]
    /\ t_phase = "idle"
    /\ t_out = <<>>

RegIdle ==
    /\ t_tools = [n \in {RegistryTools[i] : i \in DOMAIN RegistryTools} |->
                    [enabled |-> FALSE, confirmation_required |-> FALSE,
                     intents |-> {}, slots_missing |-> FALSE]]
    /\ t_plan = [intent |-> "", stage |-> ""]
    /\ t_phase = "idle"
    /\ t_out = <<>>

GetAllowedTools ==
    /\ t_phase = "idle"
    /\ t_phase' = "returned"
    /\ t_out' = AllowedTools(t_tools, t_plan, 1)
    /\ UNCHANGED <<t_tools, t_plan>>

(***************************************************************************)
(* _build_route_plan and _retrieve_context: the product context of a turn. *)
(***************************************************************************)
\* rag_allocations defaults: the product k of the default, broad and technical routes
DefaultProductK == 3
BroadProductK == 3
TechProductK == 2
\* and the knowledge-base k of the same routes
DefaultKbK == 3
BroadKbK == 1
TechKbK == 3

\* len(self.products) of the catalog the retriever searches
CatalogSize == 2

\* the parts of the configuration the plan reads
RouteConfigs ==
    [no_rag_intents : {{}, {"chitchat"}},
     downgrade_intents : {{}, {"product"}},
     \* routing_rules.strategy
     strategy : {"keyword", "embedding"},
     \* retrieval_overrides.on_stage[confirm_send].product_k, -1 when not configured
     stage_product_k : {-1, 0, 1},
     \* retrieval_overrides.on_stage[confirm_send].kb_k, -1 when not configured
     stage_kb_k : {-1, 1}]

\* slots: the focus product is not set, is a catalog product, or is an id the
\* catalog does not have; the confirmation flag is True or not
FocusSlots == [product_id : {"", "p1", "gone"}, confirm : BOOLEAN]

\* the query as the classifiers see it: the embedding router's answer (or
\* none: then the intent is "general" and, unless the strategy is "embedding",
\* the keyword lists set the flags), whether the query is shorter than
\* short_query_max_len and contains one of short_query_keywords, and what
\* exact_match finds
QueryKinds ==
    [routed : {TRUE}, intent : {"general", "product", "chitchat"}, is_broad : BOOLEAN,
     is_tech : BOOLEAN, low_score : BOOLEAN, short_hit : BOOLEAN,
     exact : {"none", "focus", "other"}]
    \cup
    [routed : {FALSE}, intent : {"general"}, is_broad : BOOLEAN,
     is_tech : BOOLEAN, low_score : {TRUE}, short_hit : BOOLEAN,
     exact : {"none", "focus", "other"}]

\* the short-query heuristic runs
ShortCircuits(cfg, q) == cfg.strategy = "keyword" /\ q.short_hit

\* _build_route_plan(query, locale, slots)
BuildRoutePlan(cfg, slots, q) ==
    LET stage0 == IF slots.confirm THEN ConfirmSlot ELSE ""
        keywords == ~q.routed /\ cfg.strategy # "embedding"
        broad0 == IF q.routed \/ keywords THEN q.is_broad ELSE FALSE
        tech0 == IF q.routed \/ keywords THEN q.is_tech ELSE FALSE
        down == q.intent \in cfg.downgrade_intents /\ q.low_score
        intent == IF down THEN "general" ELSE q.intent
        broad1 == IF down THEN FALSE ELSE broad0
        tech1 == IF down THEN FALSE ELSE tech0
        k1 == IF broad1 THEN BroadProductK ELSE IF tech1 THEN TechProductK
              ELSE DefaultProductK
        kb1 == IF broad1 THEN BroadKbK ELSE IF tech1 THEN TechKbK ELSE DefaultKbK
        norag == intent \in cfg.no_rag_intents
        k2 == IF norag THEN 0 ELSE k1
        kb2 == IF norag THEN 0 ELSE kb1
        stage == IF norag /\ intent = "chitchat" THEN "" ELSE stage0
        short == ShortCircuits(cfg, q)
        k3 == IF short THEN 0 ELSE k2
        kb3 == IF short THEN 0 ELSE kb2
        broad == IF short THEN FALSE ELSE broad1
        tech == IF short THEN FALSE ELSE tech1
        plain == intent = "general" /\ ~broad /\ ~tech
        k4 == IF plain THEN 0 ELSE k3
        kb4 == IF plain THEN 0 ELSE kb3
        k5 == IF stage = ConfirmSlot /\ cfg.stage_product_k # -1
              THEN cfg.stage_product_k ELSE k4
        kb5 == IF stage = ConfirmSlot /\ cfg.stage_kb_k # -1
               THEN cfg.stage_kb_k ELSE kb4
    IN  [intent |-> intent, is_broad |-> broad, is_tech |-> tech, product_k |-> k5,
         kb_k |-> kb5, stage |-> stage]

\* build_rag_context(query, locale, k): an exact hit gives that one product,
\* otherwise the semantic top k; no product gives an empty context
BuildRagContext(q, k) ==
    IF q.exact # "none"
    THEN [mode |-> "exact", title |-> "[Semantic TopK]", products |-> 1,
          focus_only |-> q.exact = "focus"]
    ELSE IF Min({k, CatalogSize}) = 0
         THEN [mode |-> "rag", title |-> "", products |-> 0, focus_only |-> FALSE]
         ELSE [mode |-> "rag", title |-> "[Semantic TopK]",
               products |-> Min({k, CatalogSize}), focus_only |-> FALSE]

\* rag.get_product_by_id(last_pid) finds the product
InCatalog(pid) == pid = "p1"

\* the context lock of _retrieve_context
Locks(slots, plan, rag) ==
    /\ slots.product_id # ""
    /\ rag.mode # "exact"
    /\ ~plan.is_broad
    /\ plan.product_k > 0
    /\ InCatalog(slots.product_id)

\* _retrieve_context(query, locale, route_plan, slots): the product context
RetrieveContext(slots, plan, q) ==
    LET rag == BuildRagContext(q, plan.product_k)
    IN  IF Locks(slots, plan, rag)
        THEN [mode |-> "context_lock", title |-> "[Current Focus Product]",
              products |-> 1, focus_only |-> TRUE]
        ELSE rag

NoContext == [mode |-> "", title |-> "", products |-> 0, focus_only |-> FALSE]
NoPlan == [intent |-> "", is_broad |-> FALSE, is_tech |-> FALSE, product_k |-> 0,
           kb_k |-> 0, stage |-> ""]

CtxInit ==
    /\ c_cfg \in RouteConfigs
    /\ c_slots \in FocusSlots
    /\ c_query \in QueryKinds
    /\ c_phase = "idle"
    /\ c_plan = NoPlan
    /\ c_ctx = NoContext

CtxIdle ==
    /\ c_cfg = [no_rag_intents |-> {}, downgrade_intents |-> {}, strategy |-> "keyword",
                stage_product_k |-> -1, stage_kb_k |-> -1]
    /\ c_slots = [product_id |-> "", confirm |-> FALSE]
    /\ c_query = [routed |-> FALSE, intent |-> "general", is_broad |-> FALSE,
                  is_tech |-> FALSE, low_score |-> TRUE, short_hit |-> FALSE,
                  exact |-> "none"]
    /\ c_phase = "idle"
    /\ c_plan = NoPlan
    /\ c_ctx = NoContext

\* steps 2 and 3 of prepare_llm_messages
PrepareContext ==
    /\ c_phase = "idle"
    /\ c_phase' = "returned"
    /\ c_plan' = BuildRoutePlan(c_cfg, c_slots, c_query)
    /\ c_ctx' = RetrieveContext(c_slots, BuildRoutePlan(c_cfg, c_slots, c_query), c_query)
    /\ UNCHANGED <<c_cfg, c_slots, c_query>>

(***************************************************************************)
(* The store under concurrent requests.  chat_stream hands its generator   *)
(* to StreamingResponse, which runs a plain generator in worker threads,   *)
(* so persist_turn of one request runs while other requests use the store. *)
(* The store takes no lock; a step below is one operation on a dict or a   *)
(* list, which the interpreter runs without interruption.                  *)
(***************************************************************************)
Threads == {1, 2}
\* each thread serves its own conversation
CidOf(t) == t

\* the thread's request is over: with an exception, or normally
Raise(t, exc) ==
    /\ k_pc' = [k_pc EXCEPT ![t] = "idle"]
    /\ k_exc' = [k_exc EXCEPT ![t] = exc]
Goto(t, pc) ==
    /\ k_pc' = [k_pc EXCEPT ![t] = pc]
    /\ UNCHANGED k_exc

ConcInit ==
    /\ k_pc = [t \in Threads |-> "idle"]
    /\ k_inner = [t \in Threads |-> FALSE]
    /\ k_stamp = [t \in Threads |-> 0]
    /\ k_lru = [t \in Threads |-> 0]
    /\ k_left = [t \in Threads |-> MaxRequests]
    /\ k_exc = [t \in Threads |-> ""]
    /\ k_victims = {}

ConcIdle ==
    /\ k_pc = [t \in Threads |-> "idle"]
    /\ k_inner = [t \in Threads |-> FALSE]
    /\ k_stamp = [t \in Threads |-> 0]
    /\ k_lru = [t \in Threads |-> 0]
    /\ k_left = [t \in Threads |-> 0]
    /\ k_exc = [t \in Threads |-> ""]
    /\ k_victims = {}

\* a request (persist_turn or _manage_state) calls get_or_create:
\* `if conversation_id in self._store`
GocTest(t) ==
    /\ k_pc[t] = "idle"
    /\ k_left[t] > 0
    /\ k_left' = [k_left EXCEPT ![t] = @ - 1]
    /\ k_pc' = [k_pc EXCEPT ![t] = IF store[CidOf(t)].oid # NoOid THEN "goc_lookup"
                                    ELSE "ups_start"]
    /\ k_inner' = [k_inner EXCEPT ![t] = store[CidOf(t)].oid = NoOid]
    /\ k_exc' = [k_exc EXCEPT ![t] = ""]
    /\ UNCHANGED <<store, access_order, k_stamp, k_lru, k_victims>>

\* `st = self._store[conversation_id]` and the TTL check
GocLookup(t) ==
    /\ k_pc[t] = "goc_lookup"
    /\ IF store[CidOf(t)].oid = NoOid THEN Raise(t, "KeyError")
       ELSE IF Expired(now, store[CidOf(t)].updated_at) THEN Goto(t, "exp_del")
       ELSE Goto(t, "hit_test")
    /\ UNCHANGED <<store, access_order, k_inner, k_stamp, k_lru, k_left, k_victims>>

\* `del self._store[conversation_id]` of an expired state
GocExpireDel(t) ==
    /\ k_pc[t] = "exp_del"
    /\ IF store[CidOf(t)].oid = NoOid
       THEN Raise(t, "KeyError") /\ UNCHANGED store
       ELSE Goto(t, "exp_test") /\ store' = [store EXCEPT ![CidOf(t)] = NoState]
    /\ UNCHANGED <<access_order, k_inner, k_stamp, k_lru, k_left, k_victims>>

\* `if cid in self._access_order` before each of the three remove calls
ListTest(t) ==
    /\ k_pc[t] \in {"exp_test", "hit_test", "ups_test"}
    /\ LET listed == InSeq(access_order, CidOf(t))
       IN  k_pc' = [k_pc EXCEPT ![t] =
                IF @ = "exp_test" THEN (IF listed THEN "exp_remove" ELSE "ups_start")
                ELSE IF @ = "hit_test" THEN (IF listed THEN "hit_remove" ELSE "hit_append")
                ELSE (IF listed THEN "ups_remove" ELSE "ups_set")]
    /\ k_inner' = [k_inner EXCEPT ![t] = IF k_pc[t] = "exp_test" THEN TRUE ELSE @]
    /\ UNCHANGED <<store, access_order, k_stamp, k_lru, k_left, k_exc, k_victims>>

\* `self._access_order.remove(cid)`: ValueError when the id is not in the list
ListRemove(t) ==
    /\ k_pc[t] \in {"exp_remove", "hit_remove", "ups_remove"}
    /\ IF ~InSeq(access_order, CidOf(t))
       THEN Raise(t, "ValueError") /\ UNCHANGED <<access_order, k_inner>>
       ELSE /\ access_order' = RemoveFirst(access_order, CidOf(t))
            /\ Goto(t, IF k_pc[t] = "exp_remove" THEN "ups_start"
                       ELSE IF k_pc[t] = "hit_remove" THEN "hit_append"
                       ELSE "ups_set")
            /\ k_inner' = [k_inner EXCEPT ![t] = IF k_pc[t] = "exp_remove" THEN TRUE ELSE @]
    /\ UNCHANGED <<store, k_stamp, k_lru, k_left, k_victims>>

\* the hit branch appends the id and returns the state; the request edits it
\* and calls upsert
HitAppend(t) ==
    /\ k_pc[t] = "hit_append"
    /\ access_order' = Append(access_order, CidOf(t))
    /\ Goto(t, "ups_start")
    /\ k_inner' = [k_inner EXCEPT ![t] = FALSE]
    /\ UNCHANGED <<store, k_stamp, k_lru, k_left, k_victims>>

\* upsert(state): `state.updated_at = time.time()` and `if cid in self._store`
UpsStart(t) ==
    /\ k_pc[t] = "ups_start"
    /\ k_stamp' = [k_stamp EXCEPT ![t] = now]
    /\ store' = IF store[CidOf(t)].oid # NoOid /\ ~k_inner[t]
                THEN [store EXCEPT ![CidOf(t)].updated_at = now] ELSE store
    /\ Goto(t, IF store[CidOf(t)].oid # NoOid THEN "ups_test" ELSE "ups_full")
    /\ UNCHANGED <<access_order, k_inner, k_lru, k_left, k_victims>>

\* `if len(self._store) >= self.max_items`
UpsFull(t) ==
    /\ k_pc[t] = "ups_full"
    /\ Goto(t, IF Cardinality(StoreDom(store)) >= max_items THEN "ups_pop" ELSE "ups_set")
    /\ UNCHANGED <<store, access_order, k_inner, k_stamp, k_lru, k_left, k_victims>>

\* `lru_id = self._access_order.pop(0)`: IndexError on an empty list
UpsPop(t) ==
    /\ k_pc[t] = "ups_pop"
    /\ IF access_order = <<>>
       THEN Raise(t, "IndexError") /\ UNCHANGED <<access_order, k_lru, k_victims>>
       ELSE /\ Goto(t, "ups_evict")
            /\ k_lru' = [k_lru EXCEPT ![t] = LruOf(access_order)]
            /\ access_order' = Tail(access_order)
            /\ k_victims' = k_victims \cup {LruOf(access_order)}
    /\ UNCHANGED <<store, k_inner, k_stamp, k_left>>

\* `if lru_id in self._store: del self._store[lru_id]`
UpsEvict(t) ==
    /\ k_pc[t] \in {"ups_evict", "ups_del"}
    /\ IF k_pc[t] = "ups_evict"
       THEN /\ Goto(t, IF store[k_lru[t]].oid # NoOid THEN "ups_del" ELSE "ups_set")
            /\ UNCHANGED store
       ELSE IF store[k_lru[t]].oid = NoOid
            THEN Raise(t, "KeyError") /\ UNCHANGED store
            ELSE Goto(t, "ups_set") /\ store' = [store EXCEPT ![k_lru[t]] = NoState]
    /\ UNCHANGED <<access_order, k_inner, k_stamp, k_lru, k_left, k_victims>>

\* `self._store[cid] = state`
UpsSet(t) ==
    /\ k_pc[t] = "ups_set"
    /\ store' = [store EXCEPT ![CidOf(t)] =
                    IF @.oid # NoOid /\ ~k_inner[t] THEN [@ EXCEPT !.updated_at = k_stamp[t]]
                    ELSE NewState(CidOf(t), CidOf(t), "en", k_stamp[t])]
    /\ Goto(t, "ups_append")
    /\ UNCHANGED <<access_order, k_inner, k_stamp, k_lru, k_left, k_victims>>

\* `self._access_order.append(cid)`; after the upsert of get_or_create the
\* request edits the new state and calls upsert itself
UpsAppend(t) ==
    /\ k_pc[t] = "ups_append"
    /\ access_order' = Append(access_order, CidOf(t))
    /\ Goto(t, IF k_inner[t] THEN "ups_start" ELSE "idle")
    /\ k_inner' = [k_inner EXCEPT ![t] = FALSE]
    /\ UNCHANGED <<store, k_stamp, k_lru, k_left, k_victims>>

(***************************************************************************)
(* The product index under concurrent requests.  POST /init builds the     *)
(* index on the event loop when self._vecs is None; a search in a worker   *)
(* thread builds it lazily under the same test.  Neither ProductRAG nor    *)
(* NumpyIndex takes a lock.  A build is numbered by its start; a field     *)
(* holds the number of the build that assigned it.                         *)
(***************************************************************************)
RequestKinds == {"init", "search"}
NothingSeen == [vectors |-> 0, norms |-> 0]
BuildSteps == {"build", "set_vecs", "set_vectors", "set_norms"}

IdxInit ==
    /\ v_vecs = 0
    /\ v_vectors = 0
    /\ v_norms = 0
    /\ v_builds = 0
    /\ v_done = {}
    /\ v_pc = [t \in Threads |-> "idle"]
    /\ v_kind = [t \in Threads |-> "init"]
    /\ v_gen = [t \in Threads |-> 0]
    /\ v_seen = [t \in Threads |-> NothingSeen]
    /\ v_out = [t \in Threads |-> "none"]
    /\ v_left = [t \in Threads |-> MaxRequests]

IdxIdle ==
    /\ v_vecs = 0
    /\ v_vectors = 0
    /\ v_norms = 0
    /\ v_builds = 0
    /\ v_done = {}
    /\ v_pc = [t \in Threads |-> "idle"]
    /\ v_kind = [t \in Threads |-> "init"]
    /\ v_gen = [t \in Threads |-> 0]
    /\ v_seen = [t \in Threads |-> NothingSeen]
    /\ v_out = [t \in Threads |-> "none"]
    /\ v_left = [t \in Threads |-> 0]

\* where a thread goes when its build has returned, or was not needed
AfterBuild(kind) == IF kind = "search" THEN "search" ELSE "idle"

\* init_chat and semantic_search both start with `if self._vecs is None`
IdxRequest(t, kind) ==
    /\ v_pc[t] = "idle"
    /\ v_left[t] > 0
    /\ v_left' = [v_left EXCEPT ![t] = @ - 1]
    /\ v_kind' = [v_kind EXCEPT ![t] = kind]
    /\ v_pc' = [v_pc EXCEPT ![t] = IF v_vecs = 0 THEN "build" ELSE AfterBuild(kind)]
    /\ v_seen' = [v_seen EXCEPT ![t] = NothingSeen]
    /\ v_out' = [v_out EXCEPT ![t] = "none"]
    /\ UNCHANGED <<v_vecs, v_vectors, v_norms, v_builds, v_done, v_gen>>

\* build_index up to the embeddings: doc texts, cache scan, embedder call
IdxEmbed(t) ==
    /\ v_pc[t] = "build"
    /\ v_builds' = v_builds + 1
    /\ v_gen' = [v_gen EXCEPT ![t] = v_builds + 1]
    /\ v_pc' = [v_pc EXCEPT ![t] = "set_vecs"]
    /\ UNCHANGED <<v_vecs, v_vectors, v_norms, v_done, v_kind, v_seen, v_out, v_left>>

\* `self._vecs = np.array(vecs, ...)`
IdxSetVecs(t) ==
    /\ v_pc[t] = "set_vecs"
    /\ v_vecs' = v_gen[t]
    /\ v_pc' = [v_pc EXCEPT ![t] = "set_vectors"]
    /\ UNCHANGED <<v_vectors, v_norms, v_builds, v_done, v_kind, v_gen, v_seen, v_out, v_left>>

\* NumpyIndex.build: `self._vectors = vectors.astype(np.float32)`
IdxSetVectors(t) ==
    /\ v_pc[t] = "set_vectors"
    /\ v_vectors' = v_gen[t]
    /\ v_pc' = [v_pc EXCEPT ![t] = "set_norms"]
    /\ UNCHANGED <<v_vecs, v_norms, v_builds, v_done, v_kind, v_gen, v_seen, v_out, v_left>>

\* NumpyIndex.build: `self._norms = np.linalg.norm(self._vectors, axis=1)`;
\* the build returns
IdxSetNorms(t) ==
    /\ v_pc[t] = "set_norms"
    /\ v_norms' = v_vectors
    /\ v_done' = v_done \cup {v_gen[t]}
    /\ v_pc' = [v_pc EXCEPT ![t] = AfterBuild(v_kind[t])]
    /\ UNCHANGED <<v_vecs, v_vectors, v_builds, v_kind, v_gen, v_seen, v_out, v_left>>

\* NumpyIndex.search: `if self._vectors is None ...: return` no hits
IdxSearchTest(t) ==
    /\ v_pc[t] = "search"
    /\ v_pc' = [v_pc EXCEPT ![t] = IF v_vectors = 0 THEN "idle" ELSE "read_vectors"]
    /\ v_out' = [v_out EXCEPT ![t] = IF v_vectors = 0 THEN "empty" ELSE @]
    /\ UNCHANGED <<v_vecs, v_vectors, v_norms, v_builds, v_done, v_kind, v_gen, v_seen, v_left>>

\* NumpyIndex.search: `dot_products = self._vectors @ q`
IdxReadVectors(t) ==
    /\ v_pc[t] = "read_vectors"
    /\ v_seen' = [v_seen EXCEPT ![t].vectors = v_vectors]
    /\ v_pc' = [v_pc EXCEPT ![t] = "read_norms"]
    /\ UNCHANGED <<v_vecs, v_vectors, v_norms, v_builds, v_done, v_kind, v_gen, v_out, v_left>>

\* NumpyIndex.search: `scores = dot_products / (self._norms * q_norm)`;
\* None * float is a TypeError
IdxReadNorms(t) ==
    /\ v_pc[t] = "read_norms"
    /\ v_seen' = [v_seen EXCEPT ![t].norms = v_norms]
    /\ v_out' = [v_out EXCEPT ![t] = IF v_norms = 0 THEN "TypeError" ELSE "hits"]
    /\ v_pc' = [v_pc EXCEPT ![t] = "idle"]
    /\ UNCHANGED <<v_vecs, v_vectors, v_norms, v_builds, v_done, v_kind, v_gen, v_left>>

(***************************************************************************)
(* EmbeddingIntentRouter: one centroid per intent, nearest centroid wins.  *)
(***************************************************************************)
\* sorted(examples.keys()) when every intent is configured
IntentNames == <<"broad_product", "quote_order", "technical">>

\* an intent is not in intent_examples, has no usable example sentence, or has some
ExampleConfigs == [{IntentNames[i] : i \in DOMAIN IntentNames} ->
                      {"absent", "empty", "usable"}]

\* _intent_flags(intent) under the intent_mapping of the class docstring
IntentFlags(intent) ==
    [is_broad |-> intent = "broad_product", is_tech |-> intent = "technical"]

\* cosine similarity comes in levels; a level below MinScoreLevel is a score
\* below min_score
SimLevels == 0..3
MinScoreLevel == 2

\* a query: blank, or the similarity of its embedding to the centroid each
\* intent's examples give (no two alike)
RouterQueries ==
    {[blank |-> TRUE, sim |-> [n \in {IntentNames[i] : i \in DOMAIN IntentNames} |-> 0]]}
    \cup
    {[blank |-> FALSE, sim |-> f] :
        f \in {g \in [{IntentNames[i] : i \in DOMAIN IntentNames} -> SimLevels] :
                  \A a, b \in DOMAIN g : g[a] = g[b] => a = b}}

\* the centroid of an intent's examples, named by the intent it is of
Centroid(intent) == [of |-> intent]

\* the names of build(): the configured intents, sorted
SortedNames(cfg) == SelectSeq(IntentNames, LAMBDA n : cfg[n] # "absent")

\* the loop of build(): a centroid for every name with usable examples,
\* names without any are skipped
Centroids(cfg) ==
    LET withExamples == SelectSeq(SortedNames(cfg), LAMBDA n : cfg[n] = "usable")
    IN  [j \in DOMAIN withExamples |-> Centroid(withExamples[j])]

\* build(): self._intent_names = intent_names[: len(centroids)]
BuildRes(cfg) ==
    LET centroids == Centroids(cfg)
    IN  IF centroids = <<>>
        THEN [names |-> <<>>, vecs |-> <<>>]
        ELSE [names |-> SubSeq(SortedNames(cfg), 1, Len(centroids)),
              vecs |-> centroids]

\* self._index.search(qv, top_k=1): the row with the highest score
BestIdx(vecs, q) ==
    CHOOSE j \in DOMAIN vecs : \A m \in DOMAIN vecs : q.sim[vecs[m].of] <= q.sim[vecs[j].of]

NoIntent == [found |-> FALSE, intent |-> "", score |-> 0, is_broad |-> FALSE,
             is_tech |-> FALSE]

\* route(query) on a built router
RouteRes(names, vecs, q) ==
    IF q.blank \/ vecs = <<>> \/ names = <<>> THEN NoIntent
    ELSE LET best_idx == BestIdx(vecs, q)
             best_score == q.sim[vecs[best_idx].of]
         IN  IF best_idx > Len(names) THEN NoIntent
             ELSE IF best_score < MinScoreLevel THEN NoIntent
             ELSE [found |-> TRUE, intent |-> names[best_idx], score |-> best_score,
                   is_broad |-> IntentFlags(names[best_idx]).is_broad,
                   is_tech |-> IntentFlags(names[best_idx]).is_tech]

RouterInit ==
    /\ i_cfg \in ExampleConfigs
    /\ i_built = FALSE
    /\ i_names = <<>>
    /\ i_vecs = <<>>
    /\ i_query = [blank |-> TRUE, sim |-> [n \in DOMAIN i_cfg |-> 0]]
    /\ i_out = NoIntent

RouterIdle ==
    /\ i_cfg = [n \in {IntentNames[i] : i \in DOMAIN IntentNames} |-> "absent"]
    /\ i_built = FALSE
    /\ i_names = <<>>
    /\ i_vecs = <<>>
    /\ i_query = [blank |-> TRUE, sim |-> [n \in DOMAIN i_cfg |-> 0]]
    /\ i_out = NoIntent

\* build() at startup
RouterBuild ==
    /\ ~i_built
    /\ i_built' = TRUE
    /\ i_names' = BuildRes(i_cfg).names
    /\ i_vecs' = BuildRes(i_cfg).vecs
    /\ UNCHANGED <<i_cfg, i_query, i_out>>

\* route(query): a blank query returns at once, otherwise the router is
\* built first if it has not been
Route(q) ==
    /\ i_query' = q
    /\ IF q.blank
       THEN /\ i_out' = NoIntent
            /\ UNCHANGED <<i_built, i_names, i_vecs>>
       ELSE LET b == IF i_built THEN [names |-> i_names, vecs |-> i_vecs]
                     ELSE BuildRes(i_cfg)
            IN  /\ i_built' = TRUE
                /\ i_names' = b.names
                /\ i_vecs' = b.vecs
                /\ i_out' = RouteRes(b.names, b.vecs, q)
    /\ UNCHANGED i_cfg

StoreIdle ==
    /\ max_items = 1
    /\ store = [c \in Cids |-> NoState]
    /\ access_order = <<>>
    /\ now = 0
    /\ held = [k \in Callers |-> NoState]
    /\ raised = FALSE
    /\ recency = <<>>
    /\ lastOp = NoOp

UpdIdle ==
    /\ u_cfg = CfgDefault
    /\ u_state = NoState
    /\ u_prev = "none"
    /\ u_persisted = <<>>

InitDispatch ==
    /\ DispInit
    /\ StoreIdle
    /\ UpdIdle
    /\ LoopIdle
    /\ InqIdle
    /\ RagIdle
    /\ RegIdle
    /\ CtxIdle
    /\ RouterIdle
    /\ ConcIdle
    /\ IdxIdle

NextDispatch == \E handlerRaises \in BOOLEAN : Dispatch(handlerRaises) /\ UNCHANGED notDisp

SpecDispatch == InitDispatch /\ [][NextDispatch]_vars

InitUpdater ==
    /\ UpdInit
    /\ StoreIdle
    /\ DispIdle
    /\ LoopIdle
    /\ InqIdle
    /\ RagIdle
    /\ RegIdle
    /\ CtxIdle
    /\ RouterIdle
    /\ ConcIdle
    /\ IdxIdle

NextUpdater ==
    \E mode \in RequestModes, turn \in Turns : UpdateRequest(mode, turn) /\ UNCHANGED notUpd

SpecUpdater == InitUpdater /\ [][NextUpdater]_vars

\* the requests of one conversation together with the turns the routes persist
NextPersist ==
    \/ \E mode \in RequestModes, turn \in Turns :
          UpdateRequest(mode, turn) /\ UNCHANGED notUpd
    \/ \E turn \in PersistedTurns : PersistTurn(turn) /\ UNCHANGED notUpd

SpecPersist == InitUpdater /\ [][NextPersist]_vars

InitStore ==
    /\ StoreInit
    /\ UpdIdle
    /\ DispIdle
    /\ LoopIdle
    /\ InqIdle
    /\ RagIdle
    /\ RegIdle
    /\ CtxIdle
    /\ RouterIdle
    /\ ConcIdle
    /\ IdxIdle

NextStore ==
    \/ \E k \in Callers, cid \in Cids, locale \in Locales :
          GetOrCreate(k, cid, locale) /\ UNCHANGED notStore
    \/ \E k \in Callers : Upsert(k) /\ UNCHANGED notStore
    \/ \E k \in Callers, s \in Summaries : Mutate(k, s) /\ UNCHANGED notStore
    \/ Tick /\ UNCHANGED notStore

SpecStore == InitStore /\ [][NextStore]_vars

InitLoop ==
    /\ LoopInit
    /\ StoreIdle
    /\ UpdIdle
    /\ DispIdle
    /\ InqIdle
    /\ RagIdle
    /\ RegIdle
    /\ CtxIdle
    /\ RouterIdle
    /\ ConcIdle
    /\ IdxIdle

NextLoop ==
    \/ ModelCall /\ UNCHANGED notLoop
    \/ StreamDelta /\ UNCHANGED notLoop
    \/ \E call \in ModelToolCalls : StreamToolCall(call) /\ UNCHANGED notLoop
    \/ ProviderFails /\ UNCHANGED notLoop
    \/ ProviderRaises /\ UNCHANGED notLoop
    \/ Disconnect /\ UNCHANGED notLoop
    \/ GeneratorClosed /\ UNCHANGED notLoop
    \/ \E outcome \in HandlerOutcomes : StreamDone(outcome) /\ UNCHANGED notLoop

SpecLoop == InitLoop /\ [][NextLoop]_vars

InitInquiry ==
    /\ InqInit
    /\ StoreIdle
    /\ UpdIdle
    /\ DispIdle
    /\ LoopIdle
    /\ RagIdle
    /\ RegIdle
    /\ CtxIdle
    /\ RouterIdle
    /\ ConcIdle
    /\ IdxIdle

NextInquiry ==
    \/ CallSendInquiry /\ UNCHANGED notInq
    \/ \E inserted \in BOOLEAN : InsertInquiry(inserted) /\ UNCHANGED notInq
    \/ \E delivered \in BOOLEAN : SendEmail(delivered) /\ UNCHANGED notInq
    \/ \E written \in BOOLEAN : MarkSent(written) /\ UNCHANGED notInq
    \/ \E written \in BOOLEAN : MarkFailed(written) /\ UNCHANGED notInq

SpecInquiry == InitInquiry /\ [][NextInquiry]_vars

InitRag ==
    /\ RagInit
    /\ StoreIdle
    /\ UpdIdle
    /\ DispIdle
    /\ LoopIdle
    /\ InqIdle
    /\ RegIdle
    /\ CtxIdle
    /\ RouterIdle
    /\ ConcIdle
    /\ IdxIdle

NextRag ==
    \/ \E products \in Catalogs : Restart(products) /\ UNCHANGED notRag
    \/ BuildIndex /\ UNCHANGED notRag
    \/ \E query \in Queries, k \in 0..MaxK :
          \E fuzzy \in FuzzyOutcomes(r_products, query),
             order \in RankOutcomes(r_products, query) :
                Retrieve(query, k, fuzzy, order) /\ UNCHANGED notRag

SpecRag == InitRag /\ [][NextRag]_vars

InitRegistry ==
    /\ RegInit
    /\ StoreIdle
    /\ UpdIdle
    /\ DispIdle
    /\ LoopIdle
    /\ InqIdle
    /\ RagIdle
    /\ CtxIdle
    /\ RouterIdle
    /\ ConcIdle
    /\ IdxIdle

NextRegistry ==
    \/ GetAllowedTools /\ UNCHANGED notReg

SpecRegistry == InitRegistry /\ [][NextRegistry]_vars

InitContext ==
    /\ CtxInit
    /\ StoreIdle
    /\ UpdIdle
    /\ DispIdle
    /\ LoopIdle
    /\ InqIdle
    /\ RagIdle
    /\ RegIdle
    /\ RouterIdle
    /\ ConcIdle
    /\ IdxIdle

NextContext ==
    \/ PrepareContext /\ UNCHANGED notCtx

SpecContext == InitContext /\ [][NextContext]_vars

InitRouter ==
    /\ RouterInit
    /\ StoreIdle
    /\ UpdIdle
    /\ DispIdle
    /\ LoopIdle
    /\ InqIdle
    /\ RagIdle
    /\ RegIdle
    /\ CtxIdle
    /\ ConcIdle
    /\ IdxIdle

NextRouter ==
    \/ RouterBuild /\ UNCHANGED notRouter
    \/ \E q \in RouterQueries : Route(q) /\ UNCHANGED notRouter

SpecRouter == InitRouter /\ [][NextRouter]_vars

InitConc ==
    /\ ConcInit
    /\ StoreInit
    /\ UpdIdle
    /\ DispIdle
    /\ LoopIdle
    /\ InqIdle
    /\ RagIdle
    /\ RegIdle
    /\ CtxIdle
    /\ RouterIdle
    /\ IdxIdle

\* what a step of a store call leaves alone: the bookkeeping of the
\* one-at-a-time model and every other component
notStep == <<max_items, now, held, raised, recency, lastOp, updVars, dispVars,
             loopVars, inqVars, ragVars, regVars, ctxVars, routerVars, idxVars>>

NextConc ==
    \/ \E t \in Threads : GocTest(t) /\ UNCHANGED notStep
    \/ \E t \in Threads : GocLookup(t) /\ UNCHANGED notStep
    \/ \E t \in Threads : GocExpireDel(t) /\ UNCHANGED notStep
    \/ \E t \in Threads : ListTest(t) /\ UNCHANGED notStep
    \/ \E t \in Threads : ListRemove(t) /\ UNCHANGED notStep
    \/ \E t \in Threads : HitAppend(t) /\ UNCHANGED notStep
    \/ \E t \in Threads : UpsStart(t) /\ UNCHANGED notStep
    \/ \E t \in Threads : UpsFull(t) /\ UNCHANGED notStep
    \/ \E t \in Threads : UpsPop(t) /\ UNCHANGED notStep
    \/ \E t \in Threads : UpsEvict(t) /\ UNCHANGED notStep
    \/ \E t \in Threads : UpsSet(t) /\ UNCHANGED notStep
    \/ \E t \in Threads : UpsAppend(t) /\ UNCHANGED notStep
    \/ Tick /\ UNCHANGED notStore

SpecConc == InitConc /\ [][NextConc]_vars

InitIndex ==
    /\ IdxInit
    /\ StoreIdle
    /\ UpdIdle
    /\ DispIdle
    /\ LoopIdle
    /\ InqIdle
    /\ RagIdle
    /\ RegIdle
    /\ CtxIdle
    /\ RouterIdle
    /\ ConcIdle

NextIndex ==
    \/ \E t \in Threads, kind \in RequestKinds : IdxRequest(t, kind) /\ UNCHANGED notIdx
    \/ \E t \in Threads : IdxEmbed(t) /\ UNCHANGED notIdx
    \/ \E t \in Threads : IdxSetVecs(t) /\ UNCHANGED notIdx
    \/ \E t \in Threads : IdxSetVectors(t) /\ UNCHANGED notIdx
    \/ \E t \in Threads : IdxSetNorms(t) /\ UNCHANGED notIdx
    \/ \E t \in Threads : IdxSearchTest(t) /\ UNCHANGED notIdx
    \/ \E t \in Threads : IdxReadVectors(t) /\ UNCHANGED notIdx
    \/ \E t \in Threads : IdxReadNorms(t) /\ UNCHANGED notIdx

SpecIndex == InitIndex /\ [][NextIndex]_vars

(***************************************************************************)
(* Claims about the conversation store.                                    *)
(***************************************************************************)
\* the stored id that was accessed least recently, by the access history
LeastRecent(rc, dom) ==
    rc[CHOOSE i \in 1..Len(rc) : rc[i] \in dom /\ \A j \in 1..(i-1) : rc[j] \notin dom]

WithinTtl(st, cid, t) == st[cid].oid # NoOid /\ t - st[cid].updated_at <= TtlSeconds

C1Step ==
    LET op  == lastOp'.op
        cid == lastOp'.cid
        dom == StoreDom(store)
    IN  /\ (op = "get_or_create" /\ cid \notin dom /\ Cardinality(dom) = max_items) =>
              LET v == LeastRecent(recency, dom)
              IN  /\ StoreDom(store') = (dom \ {v}) \cup {cid}
                  /\ \A c \in dom \ {v} : store'[c] = store[c]
        /\ (op \in {"get_or_create", "upsert"} /\ cid \in dom) =>
              /\ cid \in StoreDom(store')
              /\ access_order' # <<>>
              /\ access_order'[Len(access_order')] = cid
              /\ LeastRecent(recency', StoreDom(store')) = access_order'[1]

\* C1: in a full store of capacity N >= 1, get_or_create of one more distinct id
\* removes exactly the least recently accessed id and keeps every other entry;
\* get_or_create or upsert on an existing id makes it the most recently used.
C1_LruEviction == [][C1Step]_vars

\* a full store of capacity 2 whose entries are all fresh has just evicted one id
C1_Witness ==
    /\ lastOp.op = "get_or_create"
    /\ ~lastOp.hit
    /\ lastOp.evicted # 0
    /\ max_items = 2
    /\ Cardinality(StoreDom(store)) = max_items
    /\ \A c \in StoreDom(store) : WithinTtl(store, c, now)
    /\ lastOp.evicted \notin StoreDom(store)

C2Step ==
    LET cid == lastOp'.cid
        k   == lastOp'.caller
        cur == store[cid]
        got == held'[k]
    IN  lastOp'.op = "get_or_create" =>
            IF WithinTtl(store, cid, now)
            THEN /\ got.oid = cur.oid
                 /\ got.slots = cur.slots
                 /\ got.summary = cur.summary
                 /\ got.recent_turns = cur.recent_turns
                 /\ store'[cid] = got
            ELSE /\ got.oid \notin LiveOids(store, held)
                 /\ got.conversation_id = cid
                 /\ got.slots = EmptySlots
                 /\ got.summary = ""
                 /\ got.recent_turns = <<>>
                 /\ store'[cid] = got

\* C2: get_or_create returns the stored state object itself while its last
\* update is within the TTL, and otherwise a new empty state that takes the
\* place of any expired entry of that id.
C2_GetOrCreate == [][C2Step]_vars

\* an edited state at exactly the TTL boundary has just been handed out again
C2_WitnessHit ==
    /\ lastOp.op = "get_or_create"
    /\ lastOp.hit
    /\ held[lastOp.caller].summary = "s"
    /\ now - held[lastOp.caller].updated_at = TtlSeconds

(***************************************************************************)
(* Claims about the state updater.                                         *)
(***************************************************************************)
FreshState == NewState(1, 1, "en", 0)

\* the flag a conversation with no past gets from the latest user message alone
FlagOfLatestAlone ==
    UpdateStateFromMessages(
        FreshState,
        <<[role |-> "user", text |-> LastUserMsg(u_state.recent_turns)]>>,
        u_cfg).slots.confirm_send

Updated == u_prev # "none"

\* C3 as claimed: under every configuration the confirmation flag after an update
\* is the one the latest user message alone gives, whatever came before.
C3_AnyConfig == Updated => u_state.slots.confirm_send = FlagOfLatestAlone

\* C3 (amended): with reset_confirmation_on_change enabled, the confirmation flag
\* after an update is the one the latest user message alone gives, whatever the
\* earlier turns and whatever the flag was before.
C3_LatestOnly ==
    (Updated /\ u_cfg.reset_confirmation_on_change) =>
        u_state.slots.confirm_send = FlagOfLatestAlone

\* a confirmed conversation moved on: the earlier turn and the old flag said
\* "send it", the latest message does not, and the flag is down
C3_Witness ==
    /\ u_cfg = CfgDefault
    /\ u_prev = "True"
    /\ Len(u_state.recent_turns) = 2
    /\ u_state.recent_turns[1] = [role |-> "user", text |-> TxtSendIt]
    /\ u_state.recent_turns[2] = [role |-> "user", text |-> TxtHello]
    /\ u_state.slots.confirm_send = "False"

LatestIs(t) == Updated /\ LastUserMsg(u_state.recent_turns) = t

\* C4: a latest user message that is only a weak word ("yes", "ok") leaves the
\* flag false; one with a strong phrase ("send it", "confirm send") or a weak
\* word with "send" ("yes, send it") sets it; an unrelated one leaves it false.
C4_WeakStrong ==
    /\ (LatestIs(TxtYes) \/ LatestIs(TxtOk)) => u_state.slots.confirm_send # "True"
    /\ (LatestIs(TxtSendIt) \/ LatestIs(TxtConfirmSend) \/ LatestIs(TxtYesSendIt))
          => u_state.slots.confirm_send = "True"
    /\ LatestIs(TxtHello) => u_state.slots.confirm_send # "True"

(***************************************************************************)
(* Claims about ToolDispatcher.dispatch.                                   *)
(***************************************************************************)
HandlerRan == d_phase = "returned" /\ d_handler.called
SendInquiryPinned == d_tool = "send_inquiry" /\ d_pin # NoProduct

\* C5 as claimed: whenever send_inquiry reaches its handler under a context that
\* carries a pinned product, the handler gets the pinned id and slug.
C5_AnyPin ==
    (HandlerRan /\ SendInquiryPinned) =>
        /\ d_handler.f["product_id"] = d_pin.id
        /\ d_handler.f["product_slug"] = d_pin.slug

\* C9: dispatch never lets an exception out; it returns, and what it returns is
\* a structured error when the tool is not configured, when validation fails
\* and when the handler raises.
C9_NeverRaises == d_phase # "raised"

LacksRequired ==
    \/ ~d_args.isMap
    \/ MissingRequired(Parameters(d_tool, d_schema), d_args.f)
HasForbiddenExtra ==
    /\ d_args.isMap
    /\ Parameters(d_tool, d_schema).forbidExtra
    /\ UndeclaredField(Parameters(d_tool, d_schema), d_args.f)

\* C10: arguments that lack a required field, or carry an undeclared field under
\* a schema that forbids additional properties, get a structured validation
\* error back and the handler is not invoked.
C10_ValidationError ==
    (d_phase \in {"returned", "raised"} /\ d_tool \in Implemented
     /\ (LacksRequired \/ HasForbiddenExtra)) =>
        /\ d_phase = "returned"
        /\ d_result = ErrorResult("validation")
        /\ ~d_handler.called

(***************************************************************************)
(* Claims about the agent loop.                                            *)
(***************************************************************************)
\* C6: once the conversation has a focus product, every send_inquiry the loop
\* executes in the request runs with that product's id and slug, whatever
\* product arguments the model put in the tool call.
C6_FocusWins ==
    l_req.focus # NoProduct =>
        \A i \in 1..Len(l_handled) :
            l_handled[i].tool = "send_inquiry" =>
                /\ l_handled[i].f["product_id"] = l_req.focus.id
                /\ l_handled[i].f["product_slug"] = l_req.focus.slug

\* C7: whatever the provider answers, a tool call on every turn included, the
\* loop makes at most MAX_TURNS model calls and at most MAX_TURNS dispatches, and
\* after the last turn it has ended: it is never at the start of a further turn
\* nor reading a further answer.
C7_BoundedTurns ==
    /\ l_calls <= MAX_TURNS
    /\ l_dispatches <= MAX_TURNS
    /\ l_turn <= MAX_TURNS
    /\ l_turn = MAX_TURNS => l_phase = "ended"
    /\ l_phase = "stream" => l_calls = l_turn + 1

\* a tool call on every turn: both turns were used and the response is over
C7_Witness ==
    /\ l_calls = MAX_TURNS
    /\ l_dispatches = MAX_TURNS
    /\ l_turn = MAX_TURNS
    /\ l_phase = "ended"
    /\ l_end = "returned"

\* the pending tool call has been through process_tool_call
Processed == l_phase # "stream" /\ l_called /\ l_end # "provider_error"
EndsWith(events, tail) ==
    /\ Len(events) >= Len(tail)
    /\ SubSeq(events, Len(events) - Len(tail) + 1, Len(events)) = tail

\* C8: the loop never calls the send_inquiry handler for a tool call made while
\* actions are not allowed or while name, email or message is missing; such a
\* call ends the loop at once: the final message, then done, and no model call
\* after it.
C8_GateEndsLoop ==
    /\ \A i \in 1..Len(l_handled) : ~l_handled[i].gated
    /\ (Processed /\ GateFails(l_pending, l_req)) =>
          /\ l_phase = "ended"
          /\ l_end = "skipped"
          /\ EndsWith(l_events, FinalEvents(l_req.stream))

(***************************************************************************)
(* Claims about handle_send_inquiry.                                       *)
(***************************************************************************)
Did(what) == InSeq(h_log, what)
Before(first, second) ==
    \A j \in 1..Len(h_log) :
        h_log[j] = second => \E i \in 1..(j - 1) : h_log[i] = first
DeliveryFailedAndOver == h_pc = "idle" /\ h_delivery = "failed"

InsertBeforeDelivery ==
    /\ Before("insert", "send")
    /\ Did("insert_failed") => ~Did("send")

ProviderFailed == l_req.stream /\ l_fail.calls > 0 /\ l_phase # "stream"

\* C12: if the model provider fails during a streamed turn, the client
\* stream contains an error event, no final event follows the failure, and
\* no further model call and no tool dispatch is made after it.
C12_ErrorIsTerminal ==
    ProviderFailed =>
        /\ \E i \in DOMAIN l_events : i > l_fail.events /\ l_events[i] = "error"
        /\ \A i \in DOMAIN l_events : i > l_fail.events => l_events[i] # "final"
        /\ l_calls = l_fail.calls
        /\ l_dispatches = l_fail.dispatches

\* C13: within one streamed turn at most one tool_call event is passed to
\* the client, and the tool call taken for dispatch is the first complete
\* one the provider produced.
C13_FirstToolCallWins ==
    l_req.stream =>
        /\ l_fwd <= 1
        /\ l_called => l_pending = l_first

(***************************************************************************)
(* C14, C15, C16: the product retriever, its cache and its index.          *)
(***************************************************************************)
\* C14: for every catalog item X with a non-empty id or slug and every
\* query whose normalized text contains X's normalized id or slug,
\* retrieve returns mode "exact" with exactly one product, X, whatever k.
C14_ExactById ==
    r_out.op = "retrieve" =>
        \A i \in DOMAIN r_products :
            IdOrSlugIn(r_products[i], Norm(r_out.query)) =>
                r_out.mode = "exact" /\ r_out.products = <<r_products[i]>>

\* C15: over any sequence of index builds the embedder is asked for a given
\* content hash at most once (also when the content appears twice in one
\* build, or changes and changes back), and the vector a build uses for an
\* item is the one of the item's current content hash.
C15_EmbedOnce ==
    /\ \A h \in Hashes : r_embedded[h] <= 1
    /\ r_built => \A i \in DOMAIN r_vecs : r_vecs[i] = Embed(DocText(r_products[i]))

\* C16: building the index of an empty catalog and searching it, or searching
\* any index with k = 0, returns empty arrays and raises nothing; the
\* product and knowledge-base retrievers then return empty results.
C16_EmptyIsNoError ==
    /\ (r_out.op = "build" /\ r_products = <<>>) => ~r_out.raised
    /\ (r_out.op = "retrieve" /\ (r_products = <<>> \/ r_out.k = 0)) =>
            /\ ~r_out.raised
            /\ r_out.mode = "rag" => r_out.products = <<>>
    /\ \A n \in 0..MaxProducts, k \in 0..MaxK :
            \A order \in Orders(n) : (n = 0 \/ k = 0) => KbRetrieve(n, order, k) = <<>>
    /\ r_index.assigned =>
            \A order \in Orders(Len(r_index.vectors)) :
                /\ NumpySearch(r_index, order, 0) = <<>>
                /\ r_index.vectors = <<>> => NumpySearch(r_index, order, MaxK) = <<>>

(***************************************************************************)
(* C17: the tools offered to the model.                                    *)
(***************************************************************************)
\* the membership rule with the intent clause as given: no intents declared,
\* or the current intent among them, or confirming with a confirmation tool
RuleAsClaimed(spec, plan) ==
    /\ spec.enabled
    /\ plan.stage # ConfirmSlot \/ spec.confirmation_required
    /\ \/ spec.intents = {}
       \/ plan.intent \in spec.intents
       \/ plan.stage = ConfirmSlot /\ spec.confirmation_required

RECURSIVE MostRecentRef(_)
MostRecentRef(msgs) ==
    IF msgs = <<>> THEN <<>>
    ELSE LET last == msgs[Len(msgs)]
         IN  IF last.role = "user" /\ PidOf(last.text) # <<>>
             THEN PidOf(last.text)
             ELSE MostRecentRef(SubSeq(msgs, 1, Len(msgs) - 1))

\* C18: the focused product equals the most recent explicit "ID: X"
\* reference of the user: a later user turn that names another id replaces
\* the focus.
C18_FocusIsLatestRef ==
    (Updated /\ MostRecentRef(u_state.recent_turns) # <<>>) =>
        u_state.slots.product_id = MostRecentRef(u_state.recent_turns)

(***************************************************************************)
(* C19: a complete send_inquiry call under the strict schema.              *)
(***************************************************************************)
\* the pending tool call is a send_inquiry with name, email and message, the
\* request allows actions and the schema forbids additional properties
CompleteInquiryPending ==
    /\ l_phase = "stream"
    /\ l_called
    /\ l_req.allow_actions
    /\ l_req.schema = "acceptance"
    /\ l_pending.name = "send_inquiry"
    /\ l_pending.args.isMap
    /\ ~MissingFields(l_pending.args)

\* C19: with actions allowed and a send_inquiry schema that declares name,
\* email, message, product_id and product_slug and forbids additional
\* properties, a send_inquiry call with name, email and message goes through
\* process_tool_call: it is not skipped, validation accepts it, the handler
\* runs, and with a handler that does its work the result is a success.
C19_InquiryGoesThrough ==
    CompleteInquiryPending =>
        LET p == ProcessToolCall(l_pending, l_req, "ok")
        IN  /\ p.skip = ""
            /\ p.handler.called
            /\ p.ui_action = "send_inquiry"

(***************************************************************************)
(* C20: the focus product in the prompt.                                   *)
(***************************************************************************)
\* C20: when the conversation has a focused product and the latest query
\* neither exactly matches a product nor is a broad search, the product
\* context of the prompt is the focused product's, titled "[Current Focus
\* Product]", and not semantic top-k results; a bare confirmation is such a
\* query.
C20_FocusContext ==
    (/\ c_phase = "returned"
     /\ InCatalog(c_slots.product_id)
     /\ c_query.exact = "none"
     /\ ~c_plan.is_broad) =>
        c_ctx.title = "[Current Focus Product]" /\ c_ctx.focus_only


(***************************************************************************)
(* The bookkeeping of the store under calls made one at a time.            *)
(***************************************************************************)
NoDuplicates(s) == \A i, j \in 1..Len(s) : s[i] = s[j] => i = j

\* C29: after any sequence of get_or_create and upsert calls made one at a
\* time on a store of capacity >= 1, the access-order list holds exactly the
\* ids present in the store, each once, and the store never holds more than
\* max_items states.
C29_OrderMatchesStore ==
    /\ SeqSet(access_order) = StoreDom(store)
    /\ NoDuplicates(access_order)
    /\ Cardinality(StoreDom(store)) <= max_items

\* a full store of capacity 2 after an upsert of a stored id, with a third id
\* already evicted
C29_Witness ==
    /\ lastOp.op = "upsert"
    /\ lastOp.hit
    /\ max_items = 2
    /\ Len(access_order) = 2
    /\ Len(recency) = 3
    /\ ~raised

(***************************************************************************)
(* Slot gating of the tools offered to the model.                          *)
(***************************************************************************)
\* C26: get_allowed_tools hides a tool whose required_slots are not all
\* satisfied by the current slots: a tool with a missing required slot is
\* never in the returned list.
C26_MissingSlotHides ==
    t_phase = "returned" =>
        \A n \in DOMAIN t_tools : InSeq(t_out, n) => ~t_tools[n].slots_missing

(***************************************************************************)
(* What the inquiry record says once the delivery was accepted.            *)
(***************************************************************************)
\* C25: whenever the mailer accepted the message of an inquiry,
\* handle_send_inquiry reports ok and the status of the inquiry ends as sent;
\* an inquiry ends as failed only if its delivery failed.
C25_AcceptedIsSent ==
    (h_pc = "idle" /\ h_id # 0) =>
        /\ h_delivery = "sent" => (h_result.ok /\ h_db[h_id] = "sent")
        /\ h_db[h_id] = "failed" => h_delivery = "failed"

(***************************************************************************)
(* The retrieval budgets of a route plan.                                  *)
(***************************************************************************)
\* the stage override sets this budget of the plan
ProductKOverridden == c_plan.stage = ConfirmSlot /\ c_cfg.stage_product_k # -1
KbKOverridden == c_plan.stage = ConfirmSlot /\ c_cfg.stage_kb_k # -1

\* C23: in every route plan both retrieval budgets are zero when the intent
\* (after demotion) is a no-retrieval intent, and when the query is short and
\* contains a short-circuit keyword, whatever the routing strategy; only the
\* stage override, applied last, sets a different value.
C23_BudgetsZeroed ==
    (/\ c_phase = "returned"
     /\ c_plan.intent \in c_cfg.no_rag_intents \/ c_query.short_hit) =>
        /\ ~ProductKOverridden => c_plan.product_k = 0
        /\ ~KbKOverridden => c_plan.kb_k = 0

(***************************************************************************)
(* The end of a streamed response.                                         *)
(***************************************************************************)
EventCount(type) == Cardinality({i \in DOMAIN l_events : l_events[i] = type})
\* the generator of a streamed response returned, and not with an error event
EndedWithoutError ==
    /\ l_req.stream
    /\ l_phase = "ended"
    /\ l_end \in {"returned", "skipped"}
    /\ ~EndsWith(l_events, <<"error">>)

\* C30: every streamed response that does not end with an error event ends
\* with exactly one final event immediately followed by exactly one done
\* event, and no final event appears earlier in the stream, also when the
\* model asks for a tool on the last allowed turn.
C30_FinalThenDone ==
    EndedWithoutError =>
        /\ EndsWith(l_events, <<"final", "done">>)
        /\ EventCount("final") = 1
        /\ EventCount("done") = 1

(***************************************************************************)
(* A client that disconnects while the response is streamed.               *)
(***************************************************************************)
\* C24: if the client disconnects at any point while the stream is being
\* produced, the generator stops without emitting an error event, makes no
\* further model call or tool dispatch, and closes the session logger.
C24_CleanDisconnect ==
    l_conn = "gone" =>
        /\ Len(l_events) = l_gone.events
        /\ l_calls = l_gone.calls
        /\ l_dispatches = l_gone.dispatches
        /\ l_phase = "ended" => l_logger = "closed"

(***************************************************************************)
(* Turns added with persist_turn.                                          *)
(***************************************************************************)
\* the items of sub appear in s, in this order
RECURSIVE IsSubsequence(_, _)
IsSubsequence(sub, s) ==
    IF sub = <<>> THEN TRUE
    ELSE IF s = <<>> THEN FALSE
    ELSE IF Head(sub) = Head(s) THEN IsSubsequence(Tail(sub), Tail(s))
    ELSE IsSubsequence(sub, Tail(s))

\* C22: a turn added with persist_turn (an assistant reply or a tool result)
\* stays in recent_turns, in order, across later requests of the conversation,
\* until the 20-turn cap pushes it out.
C22_PersistedTurnStays ==
    Len(u_state.recent_turns) < RecentTurnsCap =>
        IsSubsequence(u_persisted, u_state.recent_turns)

(***************************************************************************)
(* The intent the router returns.                                          *)
(***************************************************************************)
\* the intents whose example sentences give a centroid
WithCentroid == {n \in DOMAIN i_cfg : i_cfg[n] = "usable"}

\* the intent whose centroid is nearest to the last query
NearestIntent ==
    CHOOSE n \in WithCentroid : \A m \in WithCentroid : i_query.sim[m] <= i_query.sim[n]

\* C21: route(query) returns the intent, flags and score of the centroid
\* nearest to the query: the returned name is the intent whose examples
\* produced that centroid, also when some configured intents have no usable
\* examples; it returns nothing when the similarity is below the minimum or
\* no intents are configured.
C21_NearestCentroid ==
    (i_built /\ ~i_query.blank) =>
        IF WithCentroid = {} \/ i_query.sim[NearestIntent] < MinScoreLevel
        THEN ~i_out.found
        ELSE /\ i_out.found
             /\ i_out.intent = NearestIntent
             /\ i_out.score = i_query.sim[NearestIntent]
             /\ i_out.is_broad = IntentFlags(NearestIntent).is_broad
             /\ i_out.is_tech = IntentFlags(NearestIntent).is_tech

\* every thread is between two requests
Quiescent == \A t \in Threads : k_pc[t] = "idle"

\* a conversation whose request completed and that no eviction chose is stored
NoStateLost ==
    \A t \in Threads :
        (k_left[t] < MaxRequests /\ k_exc[t] = "" /\ CidOf(t) \notin k_victims)
            => store[CidOf(t)].oid # NoOid

\* C27: when requests for different conversation ids interleave their
\* get_or_create and upsert calls, no call raises, and once the calls have
\* returned the access-order list holds exactly the stored ids, each once, the
\* number of stored states is at most max_items, and only evicted
\* conversations have lost their state.
C27_ConsistentWhenInterleaved ==
    /\ \A t \in Threads : k_exc[t] = ""
    /\ Quiescent =>
          /\ SeqSet(access_order) = StoreDom(store)
          /\ NoDuplicates(access_order)
          /\ Cardinality(StoreDom(store)) <= max_items
          /\ NoStateLost

\* the threads that are inside build_index
Building == {t \in Threads : v_pc[t] \in BuildSteps}

\* C28: a search never observes a partially rebuilt index (it does not fail on
\* a missing part, does not come back empty from an index that is being built,
\* and the vectors and norms it read belong to one build that had returned),
\* and two builds of the same index never run at the same time.
C28_SearchSeesCompletedBuild ==
    /\ \A t \in Threads :
          /\ v_out[t] \notin {"TypeError", "empty"}
          /\ v_out[t] = "hits" =>
                /\ v_seen[t].vectors = v_seen[t].norms
                /\ v_seen[t].vectors \in v_done
    /\ Cardinality(Building) <= 1
=============================================================================
